---- MODULE Spec2Model ----
(***************************************************************************)
(* Emission accrual engine of the Blend v2 pool                            *)
(* (pool/src/emissions/distributor.rs): the per-reserve-token emission     *)
(* index, the per-user snapshot of it, and the update / claim operations.  *)
(***************************************************************************)
EXTENDS Integers, Sequences, FiniteSets, TLC

(***************************************************************************)
(* Bounds of the exploration.                                              *)
(***************************************************************************)
MaxTime == 2
MaxCalls == 3
MaxBatch == 2

(***************************************************************************)
(* Program constant: crate::constants::SCALAR_7, 7 decimals.               *)
(***************************************************************************)
SCALAR_7 == 10000000

(***************************************************************************)
(* State.                                                                  *)
(***************************************************************************)
VARIABLES
    timestamp,       \* e.ledger().timestamp()
    res_emis_data,   \* storage: res_token_id -> Option<ReserveEmissionData>
    user_emissions,  \* storage: user -> res_token_id -> Option<UserEmissionData>
    last,            \* the last invocation: its arguments, outcome and pre-state
    calls,           \* number of invocations so far (bounds the exploration)
    backstop_blnd,   \* BLND token: the balance of the backstop
    pool_balance,    \* backstop: a pool's shares and the tokens backing them
    balances,        \* pool: each user's balance of one reserve token
    payouts,         \* emissions each user has been paid so far
    wide             \* the representation of i128 values (see Integers below)

vars == <<timestamp, res_emis_data, user_emissions, last, calls, backstop_blnd,
          pool_balance, balances, payouts, wide>>

(***************************************************************************)
(* Option<T>.                                                              *)
(***************************************************************************)
None == [some |-> FALSE]
Some(x) == [some |-> TRUE, val |-> x]

(***************************************************************************)
(* storage::ReserveEmissionData and storage::UserEmissionData.             *)
(***************************************************************************)
ReserveEmissionData(expiration, eps, index, last_time) ==
    [expiration |-> expiration, eps |-> eps, index |-> index, last_time |-> last_time]

UserEmissionData(index, accrued) == [index |-> index, accrued |-> accrued]

(***************************************************************************)
(* Integers.  The contract computes in i128 (index, eps, supply, balance,  *)
(* accrued) and u64 (timestamps).  TLC's integers are 32 bits wide, which  *)
(* the magnitudes of the repository's unit tests exceed (an index of       *)
(* 2 * 10^16, products of 10^25), so an i128 has two representations with  *)
(* the same arithmetic: a TLC integer when `wide` is FALSE, and a sign     *)
(* with a magnitude of base-10^4 limbs, least significant first and no     *)
(* leading zero limb, when `wide` is TRUE.  Timestamps fit TLC's integers  *)
(* in both.                                                                *)
(***************************************************************************)
Base == 10 ^ 4

\* m without its leading zero limbs
MagTrim(m) ==
    SubSeq(m, 1, Cardinality({i \in 1..Len(m) : \E j \in i..Len(m) : m[j] # 0}))

RECURSIVE MagOf(_)
MagOf(n) == IF n = 0 THEN <<>> ELSE <<n % Base>> \o MagOf(n \div Base)

Rest(m) == IF m = <<>> THEN <<>> ELSE Tail(m)
Limb(m) == IF m = <<>> THEN 0 ELSE Head(m)

\* -1, 0, 1 as a < b, a = b, a > b
MagCmp(a, b) ==
    IF Len(a) # Len(b) THEN (IF Len(a) < Len(b) THEN 0 - 1 ELSE 1)
    ELSE IF a = b THEN 0
    ELSE IF \E i \in 1..Len(a) : a[i] < b[i] /\ \A j \in (i + 1)..Len(a) : a[j] = b[j]
         THEN 0 - 1 ELSE 1

RECURSIVE MagAdd(_, _, _)
MagAdd(a, b, carry) ==
    IF a = <<>> /\ b = <<>>
    THEN (IF carry = 0 THEN <<>> ELSE <<carry>>)
    ELSE LET x == Limb(a) + Limb(b) + carry IN
         <<x % Base>> \o MagAdd(Rest(a), Rest(b), x \div Base)

\* a - b - borrow for a >= b + borrow, not trimmed
RECURSIVE MagSubRaw(_, _, _)
MagSubRaw(a, b, borrow) ==
    IF a = <<>> THEN <<>>
    ELSE LET x == Limb(a) - Limb(b) - borrow IN
         IF x < 0
         THEN <<x + Base>> \o MagSubRaw(Rest(a), Rest(b), 1)
         ELSE <<x>> \o MagSubRaw(Rest(a), Rest(b), 0)

MagSub(a, b) == MagTrim(MagSubRaw(a, b, 0))

\* a * k + carry for a limb k
RECURSIVE MagMulSmall(_, _, _)
MagMulSmall(a, k, carry) ==
    IF a = <<>> THEN (IF carry = 0 THEN <<>> ELSE <<carry>>)
    ELSE LET x == Head(a) * k + carry IN
         <<x % Base>> \o MagMulSmall(Tail(a), k, x \div Base)

\* a * b[i..Len(b)] is acc; the limbs b[1..i-1] are still to be multiplied
RECURSIVE MagMulRaw(_, _, _, _)
MagMulRaw(a, b, i, acc) ==
    IF i = 0 \/ Len(acc) < 0 THEN acc
    ELSE MagMulRaw(a, b, i - 1, MagAdd(MagMulSmall(a, b[i], 0), <<0>> \o acc, 0))

MagMul(a, b) ==
    IF Len(a) < Len(b) THEN MagTrim(MagMulRaw(b, a, Len(a), <<>>))
    ELSE MagTrim(MagMulRaw(a, b, Len(b), <<>>))

\* limb i of m, zero past its length
At(m, i) == IF 0 < i /\ i <= Len(m) THEN m[i] ELSE 0

\* one decimal digit g more of a dividend over the divisor d2 < Base^2:
\* s.q is the quotient so far and s.r < d2 the remainder so far
QStep(d2, s, g) ==
    [q |-> s.q * 10 + (s.r * 10 + g) \div d2, r |-> (s.r * 10 + g) % d2]

\* floor((c2 * Base + c1) / d2) for c2 <= d2 < Base^2 and a limb c1
QEstimate(d2, c2, c1) ==
    QStep(d2, QStep(d2, QStep(d2, QStep(d2, [q |-> c2 \div d2, r |-> c2 % d2],
        c1 \div 1000), (c1 \div 100) % 10), (c1 \div 10) % 10), c1 % 10).q

\* the largest of q, q - 1, q - 2 whose product with d is at most cur
QLower(cur, d, q) ==
    IF MagCmp(MagTrim(MagMulSmall(d, q, 0)), cur) <= 0 THEN q
    ELSE IF MagCmp(MagTrim(MagMulSmall(d, q - 1, 0)), cur) <= 0 THEN q - 1
    ELSE q - 2

QCapped(cur, d, q) == QLower(cur, d, IF q > Base - 1 THEN Base - 1 ELSE q)

\* the largest limb q with d * q <= cur, for cur < d * Base: the quotient
\* of the top limbs of cur by the top two limbs of d is q or q + 1
QDigit(cur, d) ==
    IF Len(d) = 1 THEN (At(cur, 2) * Base + At(cur, 1)) \div d[1]
    ELSE QCapped(cur, d,
                 QEstimate(d[Len(d)] * Base + d[Len(d) - 1],
                           At(cur, Len(d) + 1) * Base + At(cur, Len(d)),
                           At(cur, Len(d) - 1)))

\* long division by d # 0: one more limb of the dividend is brought down to
\* the quotient so far s.q (not trimmed) and the remainder so far s.r
MagDivLimb(d, s, limb) ==
    LET cur == MagTrim(<<limb>> \o s.r)
        qd == QDigit(cur, d)
    IN  [q |-> <<qd>> \o s.q, r |-> MagSub(cur, MagTrim(MagMulSmall(d, qd, 0)))]

\* the limbs a[lo..hi] are brought down, most significant first: the upper
\* half, then the lower half on the quotient and remainder the upper half left
RECURSIVE MagDivRange(_, _, _, _, _)
MagDivRange(a, d, lo, hi, s) ==
    IF lo > hi \/ Len(s.q) < 0 THEN s
    ELSE IF lo = hi THEN MagDivLimb(d, s, a[lo])
    ELSE MagDivRange(a, d, lo, (lo + hi) \div 2,
                     MagDivRange(a, d, (lo + hi) \div 2 + 1, hi, s))

MagDivMod(a, d) == MagDivRange(a, d, 1, Len(a), [q |-> <<>>, r |-> <<>>])

Wide(neg, mag) == [neg |-> neg /\ mag # <<>>, mag |-> mag]

\* the i128 of a TLC integer
I128(n) == IF wide THEN Wide(n < 0, MagOf(IF n < 0 THEN 0 - n ELSE n)) ELSE n

\* the i128 written in groups of four decimal digits, most significant first:
\* Dec(<<40, 0322, 2222>>) is 4003222222
RECURSIVE Reversed(_)
Reversed(q) == IF q = <<>> THEN <<>> ELSE Reversed(Tail(q)) \o <<Head(q)>>
Dec(groups) == Wide(FALSE, MagTrim(Reversed(groups)))

WideAdd(a, b) ==
    IF a.neg = b.neg THEN Wide(a.neg, MagAdd(a.mag, b.mag, 0))
    ELSE IF MagCmp(a.mag, b.mag) >= 0 THEN Wide(a.neg, MagSub(a.mag, b.mag))
    ELSE Wide(b.neg, MagSub(b.mag, a.mag))

WideNeg(a) == Wide(~a.neg, a.mag)

IsNeg(a) == IF wide THEN a.neg ELSE a < 0
IsPos(a) == IF wide THEN ~a.neg /\ a.mag # <<>> ELSE a > 0
Abs(x) == IF wide THEN Wide(FALSE, x.mag) ELSE IF x < 0 THEN 0 - x ELSE x

\* The exact sum, difference and product of two values, whatever their size;
\* Rust's i128 operators are i128_add, i128_sub and i128_mul below, which
\* test the exact result with FitsI128
ADD(a, b) == IF wide THEN WideAdd(a, b) ELSE a + b
SUB(a, b) == IF wide THEN WideAdd(a, WideNeg(b)) ELSE a - b
MUL(a, b) == IF wide THEN Wide(a.neg # b.neg, MagMul(a.mag, b.mag)) ELSE a * b

\* Rust's `/` on i128: the quotient truncated toward zero (z # 0)
TruncDiv(r, z) ==
    IF wide
    THEN Wide(r.neg # z.neg, MagTrim(MagDivMod(r.mag, z.mag).q))
    ELSE IF (r < 0) = (z < 0) THEN Abs(r) \div Abs(z) ELSE 0 - (Abs(r) \div Abs(z))

\* i128::rem_euclid: the remainder in 0 .. |z| - 1 (z # 0)
RemEuclid(r, z) ==
    IF wide
    THEN LET m == MagDivMod(r.mag, z.mag).r IN
         IF r.neg /\ m # <<>> THEN Wide(FALSE, MagSub(z.mag, m)) ELSE Wide(FALSE, m)
    ELSE r % Abs(z)

I128_MAX == Dec(<<170, 1411, 8346, 0469, 2317, 3168, 7303, 7158, 8410, 5727>>)

\* i128::MIN <= v <= i128::MAX (a TLC integer is below 2^31 and always fits)
FitsI128(v) ==
    IF wide
    THEN IF v.neg THEN MagCmp(v.mag, MagAdd(I128_MAX.mag, <<1>>, 0)) <= 0
         ELSE MagCmp(v.mag, I128_MAX.mag) <= 0
    ELSE TRUE

\* the floor narrowed back to i128 (I256::to_i128().unwrap_optimized()):
\* a panic when it does not fit
narrowed_i128(f) ==
    IF f.ok /\ ~FitsI128(f.val) THEN [ok |-> FALSE, val |-> I128(0)] ELSE f

\* Rust's `+`, `-` and `*` on i128, overflow checks on: the exact result v,
\* or the panic "attempt to add / subtract / multiply with overflow" when v
\* has left i128
i128_checked(v, err) ==
    IF FitsI128(v) THEN [err |-> "none", val |-> v] ELSE [err |-> err, val |-> I128(0)]

i128_add(a, b) == i128_checked(ADD(a, b), "add_overflow")
i128_sub(a, b) == i128_checked(SUB(a, b), "subtract_overflow")
i128_mul(a, b) == i128_checked(MUL(a, b), "multiply_overflow")

(***************************************************************************)
(* soroban_fixed_point_math: floor(r / z), with the panic of a zero        *)
(* divisor as the outcome ok = FALSE.  The library lowers the truncated    *)
(* quotient by one when the dividend is negative, or positive over a       *)
(* negative divisor, and there is a remainder.                             *)
(***************************************************************************)
\* Variant of div_floor: lowers the quotient without looking at the remainder.
div_floor_no_remainder(r, z) ==
    IF z = I128(0) THEN [ok |-> FALSE, val |-> I128(0)]
    ELSE IF IsNeg(r) \/ IsNeg(z)
         THEN [ok |-> TRUE, val |-> SUB(TruncDiv(r, z), I128(1))]
         ELSE [ok |-> TRUE, val |-> TruncDiv(r, z)]

div_floor(r, z) ==
    IF z = I128(0) THEN [ok |-> FALSE, val |-> I128(0)]
    ELSE IF IsNeg(r) \/ (IsPos(r) /\ IsNeg(z))
         THEN [ok |-> TRUE,
               val |-> SUB(TruncDiv(r, z),
                           IF IsPos(RemEuclid(r, z)) THEN I128(1) ELSE I128(0))]
         ELSE [ok |-> TRUE, val |-> TruncDiv(r, z)]

\* Variant of fixed_mul_floor: rounds up.
fixed_mul_floor_ceil(x, y, denominator) ==
    IF denominator = I128(0) THEN [ok |-> FALSE, val |-> I128(0)]
    ELSE LET f == div_floor(MUL(x, y), denominator) IN
         [ok |-> TRUE,
          val |-> IF MUL(f.val, denominator) = MUL(x, y) THEN f.val
                  ELSE ADD(f.val, I128(1))]

\* x.fixed_mul_floor(e, y, denominator) = floor(x * y / denominator): the
\* product is taken in 256 bits when it leaves i128, the result is i128
fixed_mul_floor(x, y, denominator) ==
    narrowed_i128(div_floor(MUL(x, y), denominator))

\* Variant of fixed_div_floor: rounds up.
fixed_div_floor_ceil(x, y, denominator) ==
    IF y = I128(0) THEN [ok |-> FALSE, val |-> I128(0)]
    ELSE LET f == div_floor(MUL(x, denominator), y) IN
         [ok |-> TRUE,
          val |-> IF MUL(f.val, y) = MUL(x, denominator) THEN f.val
                  ELSE ADD(f.val, I128(1))]

\* Variant of fixed_div_floor: the product x * denominator is an i128.
fixed_div_floor_narrow_product(x, y, denominator) ==
    IF ~FitsI128(MUL(x, denominator)) THEN [ok |-> FALSE, val |-> I128(0)]
    ELSE narrowed_i128(div_floor(MUL(x, denominator), y))

\* x.fixed_div_floor(e, y, denominator) = floor(x * denominator / y): the
\* product is taken in 256 bits when it leaves i128, the result is i128
fixed_div_floor(x, y, denominator) ==
    narrowed_i128(div_floor(MUL(x, denominator), y))

\* validator::require_nonnegative: panics with NegativeAmountError (#8)
require_nonnegative(amount) == ~IsNeg(amount)

(***************************************************************************)
(* Input domains: small values for the exhaustive exploration, the         *)
(* magnitudes of the unit tests (7 and 18 decimals) in the wide one.       *)
(***************************************************************************)
Users == IF wide THEN {"samwise"} ELSE {"samwise", "frodo"}
ResTokenIds == {1, 2}

Supplies(res_token_id) ==
    IF wide
    THEN IF res_token_id \div 2 = 0
         THEN {I128(0), I128(1), Dec(<<100, 0000, 0000, 0000, 0000, 0000, 0000, 0000>>)}
         ELSE {I128(0), Dec(<<5, 0000, 0000>>)}
    ELSE {0, 3}

Balances(res_token_id) ==
    IF wide
    THEN IF res_token_id \div 2 = 0
         THEN {I128(0), Dec(<<100, 0000, 0000, 0000, 0000>>)}
         ELSE {I128(0), Dec(<<2000, 0000>>)}
    ELSE {0, 2}

Timestamps ==
    IF wide THEN {1500000000 + k * 1000000 : k \in 0..MaxTime}
    ELSE 0..MaxTime

\* reserve_config.decimals of the reserve a token id belongs to
\* (reserve_index = reserve_token_id / 2), and the supply scalar 10^decimals
\* that execute_claim hands to claim_emissions (distributor.rs:20, 41).
Decimals(res_token_id) ==
    IF wide THEN (IF res_token_id \div 2 = 0 THEN 18 ELSE 7)
    ELSE IF res_token_id \div 2 = 0 THEN 0 ELSE 1

\* the exact power 10^n
TenTo(n) ==
    IF wide THEN Wide(FALSE, [i \in 1..(n \div 4) |-> 0] \o <<10 ^ (n % 4)>>)
    ELSE 10 ^ n

\* 10i128.pow(n): 10^38 is the last power of ten in i128, beyond it the
\* power panics ("attempt to multiply with overflow")
Pow10(n) ==
    IF n > 38 THEN [err |-> "multiply_overflow", val |-> I128(0)]
    ELSE [err |-> "none", val |-> TenTo(n)]

SupplyScalar(res_token_id) == Pow10(Decimals(res_token_id))

(***************************************************************************)
(* update_emission_data (distributor.rs:152-185), step by step.            *)
(***************************************************************************)
\* Variant of no_update_required: the "already updated at this timestamp"
\* condition is missing.
no_update_required_no_time(d, ts, supply) ==
    \/ d.last_time >= d.expiration
    \/ d.eps = I128(0)
    \/ supply = I128(0)

\* lines 160-164: nothing to accrue, the stored record is returned as it is
no_update_required(d, ts, supply) ==
    \/ d.last_time >= d.expiration
    \/ ts = d.last_time
    \/ d.eps = I128(0)
    \/ supply = I128(0)

\* Variant of ledger_timestamp: always the expiration.
ledger_timestamp_expiration(d, ts) == d.expiration

\* Variant of ledger_timestamp: the cap at the expiration is missing.
ledger_timestamp_unclamped(d, ts) == ts

\* lines 168-172: the ledger timestamp, capped at the expiration
ledger_timestamp(d, ts) == IF ts > d.expiration THEN d.expiration ELSE ts

\* Variant of additional_idx: supply and supply scalar change places.
additional_idx_swapped(d, lt, supply, supply_scalar) ==
    fixed_div_floor(MUL(I128(lt - d.last_time), d.eps), supply_scalar, supply)

\* lines 174-176: i128(ledger_timestamp - last_time) * i128(eps),
\* fixed_div_floor by the supply at the supply scalar
additional_idx(d, lt, supply, supply_scalar) ==
    fixed_div_floor(MUL(I128(lt - d.last_time), d.eps), supply, supply_scalar)

\* Variant of advanced: an advance uses the emission rate up, eps becomes 0.
advanced_eps_cleared(d, lt, add) ==
    ReserveEmissionData(d.expiration, I128(0), ADD(d.index, add), lt)

\* Variant of advanced: the index is increased and last_time is left as stored.
advanced_keep_time(d, lt, add) ==
    ReserveEmissionData(d.expiration, d.eps, ADD(d.index, add), d.last_time)

\* Variant of advanced: the index is overwritten instead of increased.
advanced_overwrite(d, lt, add) ==
    ReserveEmissionData(d.expiration, d.eps, add, lt)

\* lines 178-179: the record after the update
advanced(d, lt, add) ==
    ReserveEmissionData(d.expiration, d.eps, ADD(d.index, add), lt)

\* lines 178-181: the advanced record `rec` is stored and returned,
\* unless its index has left i128 ("attempt to add with overflow").
set_res_emis_data(rec) ==
    IF ~FitsI128(rec.index)
    THEN [err |-> "add_overflow", ret |-> None, write |-> None]
    ELSE [err |-> "none", ret |-> Some(rec), write |-> Some(rec)]

\* lines 174-181, given the outcome `add` of the fixed-point division; the
\* product i128(ledger_timestamp - last_time) * i128(eps) is an i128.
with_additional_idx(d, lt, add) ==
    IF i128_mul(I128(lt - d.last_time), d.eps).err # "none"
    THEN [err |-> "multiply_overflow", ret |-> None, write |-> None]
    ELSE IF ~add.ok
    THEN [err |-> "fixed_point", ret |-> None, write |-> None]
    ELSE set_res_emis_data(advanced(d, lt, add.val))

\* Variant of update_emission_data: when no update is required nothing is
\* returned, as for a reserve token without emission data.
update_emission_data_silent(stored, ts, supply, supply_scalar) ==
    IF ~stored.some
    THEN [err |-> "none", ret |-> None, write |-> None]
    ELSE IF no_update_required(stored.val, ts, supply)
         THEN [err |-> "none", ret |-> None, write |-> None]
         ELSE IF ledger_timestamp(stored.val, ts) < stored.val.last_time
              THEN [err |-> "subtract_overflow", ret |-> None, write |-> None]
              ELSE with_additional_idx(stored.val, ledger_timestamp(stored.val, ts),
                                       additional_idx(stored.val,
                                                      ledger_timestamp(stored.val, ts),
                                                      supply, supply_scalar))

\* Variant of update_emission_data: with a supply of 0 the time elapsed is
\* written off, last_time moves to the ledger timestamp.
update_emission_data_idle_written_off(stored, ts, supply, supply_scalar) ==
    IF ~stored.some
    THEN [err |-> "none", ret |-> None, write |-> None]
    ELSE IF no_update_required(stored.val, ts, I128(1))
         THEN [err |-> "none", ret |-> Some(stored.val), write |-> None]
         ELSE IF ledger_timestamp(stored.val, ts) < stored.val.last_time
              THEN [err |-> "subtract_overflow", ret |-> None, write |-> None]
              ELSE IF supply = I128(0)
              THEN set_res_emis_data(advanced(stored.val, ledger_timestamp(stored.val, ts),
                                              I128(0)))
              ELSE with_additional_idx(stored.val, ledger_timestamp(stored.val, ts),
                                       additional_idx(stored.val,
                                                      ledger_timestamp(stored.val, ts),
                                                      supply, supply_scalar))

\* Variant of update_emission_data: the new record is returned and never stored.
update_emission_data_unsaved(stored, ts, supply, supply_scalar) ==
    IF ~stored.some
    THEN [err |-> "none", ret |-> None, write |-> None]
    ELSE LET d == stored.val IN
         IF no_update_required(d, ts, supply)
         THEN [err |-> "none", ret |-> Some(d), write |-> None]
         ELSE LET lt == ledger_timestamp(d, ts)
                  add == additional_idx(d, lt, supply, supply_scalar)
              IN  [err |-> "none", ret |-> Some(advanced(d, lt, add.val)),
                   write |-> None]

\* Variant of update_emission_data: the expiration is ignored altogether.
update_emission_data_no_expiry(stored, ts, supply, supply_scalar) ==
    IF ~stored.some
    THEN [err |-> "none", ret |-> None, write |-> None]
    ELSE LET d == stored.val IN
         IF ts = d.last_time \/ d.eps = I128(0) \/ supply = I128(0)
         THEN [err |-> "none", ret |-> Some(d), write |-> None]
         ELSE LET add == additional_idx(d, ts, supply, supply_scalar) IN
              [err |-> "none", ret |-> Some(advanced(d, ts, add.val)),
               write |-> Some(advanced(d, ts, add.val))]

\* Variant of update_emission_data: the elapsed time is a signed difference,
\* so a last_time ahead of the ledger gives a negative addition to the index.
update_emission_data_signed(stored, ts, supply, supply_scalar) ==
    IF ~stored.some
    THEN [err |-> "none", ret |-> None, write |-> None]
    ELSE LET d == stored.val IN
         IF no_update_required(d, ts, supply)
         THEN [err |-> "none", ret |-> Some(d), write |-> None]
         ELSE LET lt == ledger_timestamp(d, ts)
                  add == additional_idx(d, lt, supply, supply_scalar)
              IN  [err |-> "none", ret |-> Some(advanced(d, lt, add.val)),
                   write |-> Some(advanced(d, lt, add.val))]

\* The whole function on the stored record `stored` at ledger time `ts`.
\* ret is the Option returned, write the record handed to
\* storage::set_res_emis_data (None: no write), err the panic that ends the
\* invocation ("none": the function returns).
update_emission_data(stored, ts, supply, supply_scalar) ==
    IF ~stored.some
    THEN [err |-> "none", ret |-> None, write |-> None]
    ELSE LET d == stored.val IN
         IF no_update_required(d, ts, supply)
         THEN [err |-> "none", ret |-> Some(d), write |-> None]
         ELSE LET lt == ledger_timestamp(d, ts) IN
              IF lt < d.last_time
              THEN \* u64 subtraction: "attempt to subtract with overflow"
                   [err |-> "subtract_overflow", ret |-> None, write |-> None]
              ELSE with_additional_idx(d, lt, additional_idx(d, lt, supply, supply_scalar))

\* Variant of set_user_emissions: every reconciliation stores accrued 0.
set_user_emissions_reset(index, accrued, claim) ==
    [err |-> "none", ret |-> IF claim THEN accrued ELSE I128(0),
     write |-> Some(UserEmissionData(index, I128(0)))]

\* Variant of set_user_emissions: a claim leaves the accrued amount stored.
set_user_emissions_keep(index, accrued, claim) ==
    IF claim
    THEN [err |-> "none", ret |-> accrued, write |-> Some(UserEmissionData(index, accrued))]
    ELSE [err |-> "none", ret |-> I128(0), write |-> Some(UserEmissionData(index, accrued))]

(***************************************************************************)
(* set_user_emissions (distributor.rs:223-243).                            *)
(***************************************************************************)
set_user_emissions(index, accrued, claim) ==
    IF claim
    THEN [err |-> "none", ret |-> accrued,
          write |-> Some(UserEmissionData(index, I128(0)))]
    ELSE [err |-> "none", ret |-> I128(0),
          write |-> Some(UserEmissionData(index, accrued))]

\* Variant of accrual_add: the new amount is subtracted.
accrual_sub(accrual, to_accrue) == i128_sub(accrual, to_accrue)

\* Variant of accrual_add: the amount stored before is dropped.
accrual_replace(accrual, to_accrue) == [err |-> "none", val |-> to_accrue]

\* distributor.rs:207: accrual += to_accrue
accrual_add(accrual, to_accrue) == i128_add(accrual, to_accrue)

\* update_user_emissions ends in a panic
panicked(err) == [err |-> err, ret |-> I128(0), write |-> None]

\* lines 207-209: the sum `accrual` is stored, unless the addition panicked
accrued_more(index, accrual, claim) ==
    IF accrual.err # "none" THEN panicked(accrual.err)
    ELSE set_user_emissions(index, accrual.val, claim)

\* lines 202-209, given the outcome `to_accrue` of fixed_mul_floor
accrued_floor(index, accrued, to_accrue, claim) ==
    IF ~to_accrue.ok THEN panicked("fixed_point")
    ELSE accrued_more(index, accrual_add(accrued, to_accrue.val), claim)

\* lines 202-209, given the product `scale` = supply_scalar * SCALAR_7
accrue_scaled(index, accrued, delta_index, balance, scale, claim) ==
    IF scale.err # "none" THEN panicked(scale.err)
    ELSE accrued_floor(index, accrued,
                       fixed_mul_floor(balance, delta_index, scale.val), claim)

\* lines 200-209, given the difference `delta_index` of the two indexes
accrue_since(index, accrued, delta_index, balance, supply_scalar, claim) ==
    IF delta_index.err # "none" THEN panicked(delta_index.err)
    ELSE IF ~require_nonnegative(delta_index.val) THEN panicked("NegativeAmountError")
    ELSE accrue_scaled(index, accrued, delta_index.val, balance,
                       i128_mul(supply_scalar, I128(SCALAR_7)), claim)

\* lines 215-217, given the outcome `to_accrue` of fixed_mul_floor
first_floor(index, to_accrue, claim) ==
    IF ~to_accrue.ok THEN panicked("fixed_point")
    ELSE set_user_emissions(index, to_accrue.val, claim)

\* lines 215-217, given the product `scale` = supply_scalar * SCALAR_7
first_accrual(index, balance, scale, claim) ==
    IF scale.err # "none" THEN panicked(scale.err)
    ELSE first_floor(index, fixed_mul_floor(balance, index, scale.val), claim)

\* Variant of update_user_emissions: a user met for the first time with a
\* balance of 0 gets no snapshot.
update_user_emissions_skip_empty(res_emis, stored, supply_scalar, balance, claim) ==
    IF stored.some
    THEN IF stored.val.index # res_emis.index \/ claim
         THEN IF balance # I128(0)
              THEN accrue_since(res_emis.index, stored.val.accrued,
                                i128_sub(res_emis.index, stored.val.index),
                                balance, supply_scalar, claim)
              ELSE set_user_emissions(res_emis.index, stored.val.accrued, claim)
         ELSE [err |-> "none", ret |-> I128(0), write |-> None]
    ELSE IF balance = I128(0)
    THEN [err |-> "none", ret |-> I128(0), write |-> None]
    ELSE first_accrual(res_emis.index, balance,
                       i128_mul(supply_scalar, I128(SCALAR_7)), claim)

\* Variant of update_user_emissions: a snapshot at the index of the reserve
\* token is reconciled like any other.
update_user_emissions_no_skip(res_emis, stored, supply_scalar, balance, claim) ==
    IF stored.some
    THEN IF TRUE
         THEN IF balance # I128(0)
              THEN accrue_since(res_emis.index, stored.val.accrued,
                                i128_sub(res_emis.index, stored.val.index),
                                balance, supply_scalar, claim)
              ELSE set_user_emissions(res_emis.index, stored.val.accrued, claim)
         ELSE [err |-> "none", ret |-> I128(0), write |-> None]
    ELSE IF balance = I128(0)
    THEN set_user_emissions(res_emis.index, I128(0), claim)
    ELSE first_accrual(res_emis.index, balance,
                       i128_mul(supply_scalar, I128(SCALAR_7)), claim)

\* Variant of update_user_emissions: with a balance of 0 the accrued amount
\* stored before is dropped.
update_user_emissions_forfeit(res_emis, stored, supply_scalar, balance, claim) ==
    IF stored.some
    THEN IF stored.val.index # res_emis.index \/ claim
         THEN IF balance # I128(0)
              THEN accrue_since(res_emis.index, stored.val.accrued,
                                i128_sub(res_emis.index, stored.val.index),
                                balance, supply_scalar, claim)
              ELSE set_user_emissions(res_emis.index, I128(0), claim)
         ELSE [err |-> "none", ret |-> I128(0), write |-> None]
    ELSE IF balance = I128(0)
    THEN set_user_emissions(res_emis.index, I128(0), claim)
    ELSE first_accrual(res_emis.index, balance,
                       i128_mul(supply_scalar, I128(SCALAR_7)), claim)

(***************************************************************************)
(* update_user_emissions (distributor.rs:187-221): `stored` is what        *)
(* storage::get_user_emissions returns for (user, res_token_id).           *)
(***************************************************************************)
update_user_emissions(res_emis, stored, supply_scalar, balance, claim) ==
    IF stored.some
    THEN IF stored.val.index # res_emis.index \/ claim
         THEN IF balance # I128(0)
              THEN accrue_since(res_emis.index, stored.val.accrued,
                                i128_sub(res_emis.index, stored.val.index),
                                balance, supply_scalar, claim)
              ELSE set_user_emissions(res_emis.index, stored.val.accrued, claim)
         ELSE [err |-> "none", ret |-> I128(0), write |-> None]
    ELSE IF balance = I128(0)
    THEN set_user_emissions(res_emis.index, I128(0), claim)
    ELSE first_accrual(res_emis.index, balance,
                       i128_mul(supply_scalar, I128(SCALAR_7)), claim)

\* The outcome of the call once the user has been reconciled with outcome `u`
\* against the record `res_ret` that update_emission_data returned with the
\* write `res`.
reconciled(res_ret, res, u) ==
    IF u.err # "none"
    THEN [err |-> u.err, ret |-> I128(0), res |-> None, usr |-> None, res_ret |-> res_ret]
    ELSE [err |-> "none", ret |-> u.ret, res |-> res, usr |-> u.write, res_ret |-> res_ret]

\* The call after update_emission_data with outcome `r`: `if let Some(..)`.
with_emission_data(r, stored_usr, supply_scalar, balance, claim) ==
    IF r.err # "none"
    THEN [err |-> r.err, ret |-> I128(0), res |-> None, usr |-> None, res_ret |-> None]
    ELSE IF ~r.ret.some
    THEN [err |-> "none", ret |-> I128(0), res |-> None, usr |-> None, res_ret |-> None]
    ELSE reconciled(r.ret, r.write,
                    update_user_emissions(r.ret.val, stored_usr, supply_scalar,
                                          balance, claim))

\* Variant of emissions_call: a reserve token without emission data is
\* treated as one with an empty record.
emissions_call_default(stored_res, stored_usr, ts, supply, supply_scalar, balance, claim) ==
    LET r == update_emission_data(stored_res, ts, supply, supply_scalar) IN
    IF r.err # "none"
    THEN [err |-> r.err, ret |-> I128(0), res |-> None, usr |-> None, res_ret |-> None]
    ELSE reconciled(r.ret, r.write,
                    update_user_emissions(
                        IF r.ret.some THEN r.ret.val
                        ELSE ReserveEmissionData(0, I128(0), I128(0), 0),
                        stored_usr, supply_scalar, balance, claim))

(***************************************************************************)
(* update_emissions (distributor.rs:83-102) and claim_emissions            *)
(* (distributor.rs:117-138): advance the reserve token's record, then      *)
(* reconcile the user against the record returned.  res / usr are the two  *)
(* storage writes (None: no write), res_ret the Option that               *)
(* update_emission_data returned.                                          *)
(***************************************************************************)
emissions_call(stored_res, stored_usr, ts, supply, supply_scalar, balance, claim) ==
    with_emission_data(update_emission_data(stored_res, ts, supply, supply_scalar),
                       stored_usr, supply_scalar, balance, claim)

\* Variant of update_emissions: the user is reconciled as in a claim.
update_emissions_claiming(stored_res, stored_usr, ts, supply, supply_scalar, balance) ==
    [emissions_call(stored_res, stored_usr, ts, supply, supply_scalar, balance, TRUE)
        EXCEPT !.ret = I128(0)]

update_emissions(stored_res, stored_usr, ts, supply, supply_scalar, balance) ==
    [emissions_call(stored_res, stored_usr, ts, supply, supply_scalar, balance, FALSE)
        EXCEPT !.ret = I128(0)]

\* Variant of claim_emissions: the amount is paid and stays stored as accrued.
claim_emissions_no_reset(stored_res, stored_usr, ts, supply, supply_scalar, balance) ==
    LET c == emissions_call(stored_res, stored_usr, ts, supply, supply_scalar, balance, TRUE)
    IN  IF c.err = "none" /\ c.usr.some
        THEN [c EXCEPT !.usr = Some(UserEmissionData(c.usr.val.index, c.ret))]
        ELSE c

claim_emissions(stored_res, stored_usr, ts, supply, supply_scalar, balance) ==
    emissions_call(stored_res, stored_usr, ts, supply, supply_scalar, balance, TRUE)

(***************************************************************************)
(* One invocation of the contract: it runs to completion and commits its   *)
(* storage writes, or panics and commits nothing.                          *)
(***************************************************************************)
Invoke(op, out, res_token_id, user, supply, supply_scalar, balance) ==
    /\ calls < MaxCalls
    /\ calls' = calls + 1
    /\ res_emis_data' =
           IF out.err = "none" /\ out.res.some
           THEN [res_emis_data EXCEPT ![res_token_id] = out.res]
           ELSE res_emis_data
    /\ user_emissions' =
           IF out.err = "none" /\ out.usr.some
           THEN [user_emissions EXCEPT ![user][res_token_id] = out.usr]
           ELSE user_emissions
    /\ last' = [op |-> op, res_token_id |-> res_token_id, user |-> user,
                supply |-> supply, supply_scalar |-> supply_scalar,
                balance |-> balance, ts |-> timestamp,
                pre_res |-> res_emis_data[res_token_id],
                pre_usr |-> user_emissions[user][res_token_id],
                err |-> out.err, ret |-> out.ret, res_ret |-> out.res_ret,
                wrote_res |-> (out.err = "none" /\ out.res.some),
                wrote_usr |-> (out.err = "none" /\ out.usr.some)]
    /\ UNCHANGED <<timestamp, backstop_blnd, pool_balance, wide>>

UpdateEmissions ==
    /\ \E res_token_id \in ResTokenIds, user \in Users :
       \E supply \in Supplies(res_token_id), balance \in Balances(res_token_id) :
         LET supply_scalar == SupplyScalar(res_token_id).val IN
           Invoke("update_emissions",
                  update_emissions(res_emis_data[res_token_id],
                                   user_emissions[user][res_token_id],
                                   timestamp, supply, supply_scalar, balance),
                  res_token_id, user, supply, supply_scalar, balance)
    /\ UNCHANGED <<balances, payouts>>

ClaimEmissions ==
    /\ \E res_token_id \in ResTokenIds, user \in Users :
       \E supply \in Supplies(res_token_id), balance \in Balances(res_token_id) :
         LET supply_scalar == SupplyScalar(res_token_id).val IN
           Invoke("claim_emissions",
                  claim_emissions(res_emis_data[res_token_id],
                                  user_emissions[user][res_token_id],
                                  timestamp, supply, supply_scalar, balance),
                  res_token_id, user, supply, supply_scalar, balance)
    /\ UNCHANGED <<balances, payouts>>

\* update_emission_data (distributor.rs:152-185, pub(super)) called on its
\* own by the emissions module: the record of the reserve token is advanced
\* and no user is reconciled.
InvokeEmissionData(r, res_token_id, supply, supply_scalar) ==
    /\ calls < MaxCalls
    /\ calls' = calls + 1
    /\ res_emis_data' =
           IF r.err = "none" /\ r.write.some
           THEN [res_emis_data EXCEPT ![res_token_id] = r.write]
           ELSE res_emis_data
    /\ last' = [op |-> "update_emission_data", res_token_id |-> res_token_id,
                user |-> "", supply |-> supply, supply_scalar |-> supply_scalar,
                balance |-> I128(0), ts |-> timestamp,
                pre_res |-> res_emis_data[res_token_id], pre_usr |-> None,
                err |-> r.err, ret |-> I128(0),
                res_ret |-> IF r.err = "none" THEN r.ret ELSE None,
                wrote_res |-> (r.err = "none" /\ r.write.some),
                wrote_usr |-> FALSE]
    /\ UNCHANGED <<user_emissions, timestamp, backstop_blnd, pool_balance, wide>>

UpdateEmissionData ==
    /\ \E res_token_id \in ResTokenIds :
       \E supply \in Supplies(res_token_id) :
           InvokeEmissionData(update_emission_data(res_emis_data[res_token_id],
                                                   timestamp, supply,
                                                   SupplyScalar(res_token_id).val),
                              res_token_id, supply, SupplyScalar(res_token_id).val)
    /\ UNCHANGED <<balances, payouts>>

(***************************************************************************)
(* The host closes a ledger: the timestamp moves forward.                  *)
(***************************************************************************)
NoCall == [op |-> "none", res_token_id |-> 0, user |-> "", supply |-> I128(0),
           supply_scalar |-> I128(0), balance |-> I128(0), ts |-> 0,
           pre_res |-> None, pre_usr |-> None, err |-> "none", ret |-> I128(0),
           res_ret |-> None, wrote_res |-> FALSE, wrote_usr |-> FALSE]

AdvanceLedger ==
    /\ \E t \in Timestamps : t > timestamp /\ timestamp' = t
    /\ last' = NoCall
    /\ UNCHANGED <<res_emis_data, user_emissions, calls, backstop_blnd, pool_balance,
                   balances, payouts, wide>>

\* The emission engine runs apart from the backstop's pool balances.
NoPool == [shares |-> I128(0), tokens |-> I128(0)]

\* The callers of update_emissions and claim_emissions hand in the supply
\* and the balance; balances and payouts are kept only where the callers'
\* bookkeeping is part of the exploration.
NoBalances == [u \in Users |-> I128(0)]
NoPayouts == [u \in Users |-> I128(0)]

\* The BLND the backstop holds for the pool's emissions, all of it approved
\* to the pool (the tests mint and approve 100_000_0000000).
BackstopFunds == IF wide THEN Dec(<<1, 0000, 0000, 0000>>) ELSE I128(4)

(***************************************************************************)
(* Init: the ledger at time 0; each reserve token either has no emission   *)
(* configured or one configured now (last_time = 0); no user has been      *)
(* reconciled yet.                                                         *)
(***************************************************************************)
InitReserveData(res_token_id) ==
    IF res_token_id = 1
    THEN {Some(ReserveEmissionData(1, 20000000, 10000000, 0)),   \* expires at 1
          Some(ReserveEmissionData(5, 0, 10000000, 0))}          \* eps = 0
    ELSE {Some(ReserveEmissionData(5, 20000000, 0, 0)),          \* live
          None}                                                  \* not configured

Init ==
    /\ wide = FALSE
    /\ timestamp = 0
    /\ res_emis_data \in {f \in [ResTokenIds -> UNION {InitReserveData(id) : id \in ResTokenIds}] :
                             \A id \in ResTokenIds : f[id] \in InitReserveData(id)}
    /\ user_emissions = [u \in Users |-> [id \in ResTokenIds |-> None]]
    /\ last = NoCall
    /\ calls = 0
    /\ backstop_blnd = BackstopFunds
    /\ pool_balance = NoPool
    /\ balances = NoBalances
    /\ payouts = NoPayouts

Next == UpdateEmissions \/ ClaimEmissions \/ UpdateEmissionData \/ AdvanceLedger

Spec == Init /\ [][Next]_vars

(***************************************************************************)
(* The storage that test_update_emissions and test_claim_emissions set up  *)
(* (distributor.rs:281-295, 494-508), at the magnitudes of the tests: the  *)
(* ledger at the last_time of the reserve token, 10^6 seconds before the   *)
(* tests' timestamp.                                                       *)
(***************************************************************************)
TestReserveData ==
    ReserveEmissionData(1600000000, Dec(<<1, 0000, 0000, 0000>>),
                        Dec(<<23, 4567, 8000, 0000>>), 1500000000)

TestUserData == UserEmissionData(Dec(<<12, 3456, 7000, 0000>>), Dec(<<100, 0000>>))

InitTests ==
    /\ wide = TRUE
    /\ timestamp = 1500000000
    /\ res_emis_data = [id \in ResTokenIds |->
                            IF id = 2 THEN Some(TestReserveData) ELSE None]
    /\ user_emissions = [u \in Users |-> [id \in ResTokenIds |->
                            IF u = "samwise" /\ id = 2 THEN Some(TestUserData)
                            ELSE None]]
    /\ last = NoCall
    /\ calls = 0
    /\ backstop_blnd = BackstopFunds
    /\ pool_balance = NoPool
    /\ balances = NoBalances
    /\ payouts = NoPayouts

SpecTests == InitTests /\ [][Next]_vars

(***************************************************************************)
(* The storage of test_update_emission_no_overflow (a reserve token of 18  *)
(* decimals, 10^7 seconds after its last update), or the same record with  *)
(* an index at the end of i128; two invocations.                           *)
(***************************************************************************)
OverflowReserveData ==
    {ReserveEmissionData(1600000000, Dec(<<1, 0000, 0000, 0000, 0000>>),
                         Dec(<<23, 4567, 8000, 0000>>), 1490000000),
     ReserveEmissionData(1600000000, Dec(<<1, 0000, 0000, 0000, 0000>>),
                         SUB(I128_MAX, I128(5)), 1490000000)}

OverflowUserData == UserEmissionData(Dec(<<12, 3456, 7000, 0000>>), Dec(<<100, 0000>>))

InitOverflow ==
    /\ wide = TRUE
    /\ timestamp = 1500000000
    /\ res_emis_data \in {[id \in ResTokenIds |-> IF id = 1 THEN Some(d) ELSE None] :
                             d \in OverflowReserveData}
    /\ user_emissions = [u \in Users |-> [id \in ResTokenIds |->
                            IF u = "samwise" /\ id = 1 THEN Some(OverflowUserData)
                            ELSE None]]
    /\ last = NoCall
    /\ calls = MaxCalls - 2
    /\ backstop_blnd = BackstopFunds
    /\ pool_balance = NoPool
    /\ balances = NoBalances
    /\ payouts = NoPayouts

SpecOverflow == InitOverflow /\ [][Next]_vars

(***************************************************************************)
(* One invocation on storage holding any record, whatever wrote it, the    *)
(* way the unit tests of update_emission_data and update_user_emissions    *)
(* set the storage up: one reserve token with emission data and at most    *)
(* one user snapshot for it.                                               *)
(***************************************************************************)
AnyReserveData ==
    {ReserveEmissionData(x, eps, i, lt) :
        x \in {1, 5}, eps \in {0, 20000000}, i \in {0, 10000000}, lt \in {0, 1, 2}}

AnyUserData ==
    {UserEmissionData(i, a) : i \in {0, 10000000, 20000000}, a \in {0, 1}}

InitStored ==
    /\ wide = FALSE
    /\ timestamp = 1
    /\ \E id \in ResTokenIds, u \in Users :
          /\ \E d \in AnyReserveData :
                res_emis_data = [i \in ResTokenIds |-> IF i = id THEN Some(d) ELSE None]
          /\ \E s \in {None} \cup {Some(x) : x \in AnyUserData} :
                user_emissions = [v \in Users |-> [i \in ResTokenIds |->
                                     IF v = u /\ i = id THEN s ELSE None]]
    /\ last = NoCall
    /\ calls = MaxCalls - 1
    /\ backstop_blnd = BackstopFunds
    /\ pool_balance = NoPool
    /\ balances = NoBalances
    /\ payouts = NoPayouts

SpecStored == InitStored /\ [][Next]_vars

(***************************************************************************)
(* execute_claim (distributor.rs:15-63).  What it reads from outside the   *)
(* emissions module is an input of the invocation: the reserve list, the   *)
(* positions of `from` (User::load) and the reserve data of each reserve.  *)
(***************************************************************************)
\* storage::get_res_list: the pool has reserves 0 and 1
ReserveList == {0, 1}

Positions(liabilities, collateral, supply) ==
    [liabilities |-> liabilities, collateral |-> collateral, supply |-> supply]

\* User::get_liabilities and User::get_total_supply (collateral plus supply)
get_liabilities(positions, reserve_index) == positions.liabilities[reserve_index]

get_total_supply(positions, reserve_index) ==
    ADD(positions.collateral[reserve_index], positions.supply[reserve_index])

\* The positions of a user: none, or (as in test_execute_claim, on the
\* reserve tokens that have emission data here) collateral and supply in
\* reserve 0 and liabilities in reserve 1.
PositionsSet ==
    {Positions([i \in ReserveList |-> I128(0)], [i \in ReserveList |-> I128(0)],
               [i \in ReserveList |-> I128(0)]),
     Positions([i \in ReserveList |-> IF i = 1 THEN I128(2) ELSE I128(0)],
               [i \in ReserveList |-> IF i = 0 THEN I128(1) ELSE I128(0)],
               [i \in ReserveList |-> IF i = 0 THEN I128(1) ELSE I128(0)])}

\* reserve_data of every reserve, its d_supply and its b_supply: nothing
\* supplied or borrowed, or the supply of 3 on the side that has emission
\* data and twice as much on the other.
ReservesSet ==
    {[i \in ReserveList |-> [d_supply |-> I128(0), b_supply |-> I128(0)]],
     [i \in ReserveList |-> IF i = 0
                            THEN [d_supply |-> I128(6), b_supply |-> I128(3)]
                            ELSE [d_supply |-> I128(3), b_supply |-> I128(6)]]}

\* The reserve token ids handed to execute_claim: those with emission data,
\* and 4, whose reserve (index 2) is not in the reserve list.
ClaimTokenIds == ResTokenIds \cup {4}

Batches == UNION {[1..n -> ClaimTokenIds] : n \in 0..MaxBatch}

Recipients == {"merry"}

\* storage::get_res_emis_data / storage::get_user_emissions on the storage
\* as the invocation has written it so far
get_res_emis_data(res, res_token_id) ==
    IF res_token_id \in DOMAIN res THEN res[res_token_id] ELSE None

get_user_emissions(usr, user, res_token_id) ==
    IF res_token_id \in DOMAIN usr[user] THEN usr[user][res_token_id] ELSE None

\* Variant of user_balance: the sides are swapped, an even id reads the
\* total supply and an odd id the liabilities.
user_balance_sides_swapped(positions, res_token_id) ==
    IF res_token_id % 2 = 0
    THEN get_total_supply(positions, res_token_id \div 2)
    ELSE get_liabilities(positions, res_token_id \div 2)

\* lines 27-36: the balance of the user and the supply a token id stands for
user_balance(positions, res_token_id) ==
    IF res_token_id % 2 = 0
    THEN get_liabilities(positions, res_token_id \div 2)
    ELSE get_total_supply(positions, res_token_id \div 2)

token_supply(reserves, res_token_id) ==
    IF res_token_id % 2 = 0
    THEN reserves[res_token_id \div 2].d_supply
    ELSE reserves[res_token_id \div 2].b_supply

\* reserve_list.get(reserve_index), lines 21-22
reserve_list_get(reserve_index) ==
    IF reserve_index \in ReserveList THEN Some(reserve_index) ELSE None

\* Variant of on_missing_reserve: the loop ends without a panic.
on_missing_reserve_ignored(st) == st

\* lines 46-48: panic_with_error!(e, PoolError::BadRequest)
on_missing_reserve(st) == [st EXCEPT !.err = "BadRequest"]

\* Variant of claimed: to_claim is overwritten by each claim.
claimed_last_only(st, c, res_token_id, out) ==
    IF out.err # "none" THEN [st EXCEPT !.err = out.err]
    ELSE [res |-> IF out.res.some THEN [st.res EXCEPT ![res_token_id] = out.res]
                  ELSE st.res,
          usr |-> IF out.usr.some
                  THEN [st.usr EXCEPT ![c.from][res_token_id] = out.usr]
                  ELSE st.usr,
          to_claim |-> out.ret,
          err |-> "none"]

\* Variant of claimed: the snapshot a claim writes is lost.
claimed_snapshot_lost(st, c, res_token_id, out) ==
    IF out.err # "none" THEN [st EXCEPT !.err = out.err]
    ELSE [res |-> IF out.res.some THEN [st.res EXCEPT ![res_token_id] = out.res]
                  ELSE st.res,
          usr |-> st.usr,
          to_claim |-> ADD(st.to_claim, out.ret),
          err |-> "none"]

\* Variant of claimed: only the first claim that pays is counted.
claimed_first_only(st, c, res_token_id, out) ==
    IF out.err # "none" THEN [st EXCEPT !.err = out.err]
    ELSE [res |-> IF out.res.some THEN [st.res EXCEPT ![res_token_id] = out.res]
                  ELSE st.res,
          usr |-> IF out.usr.some
                  THEN [st.usr EXCEPT ![c.from][res_token_id] = out.usr]
                  ELSE st.usr,
          to_claim |-> IF st.to_claim = I128(0) THEN out.ret ELSE st.to_claim,
          err |-> "none"]

\* lines 37-44: to_claim += claim_emissions(...).  st holds the storage as
\* the invocation has written it so far (res, usr), to_claim and the panic
\* that ended the loop; out is the outcome of claim_emissions.
claimed(st, c, res_token_id, out) ==
    IF out.err # "none" THEN [st EXCEPT !.err = out.err]
    ELSE IF i128_add(st.to_claim, out.ret).err # "none"
    THEN [st EXCEPT !.err = "add_overflow"]
    ELSE [res |-> IF out.res.some THEN [st.res EXCEPT ![res_token_id] = out.res]
                  ELSE st.res,
          usr |-> IF out.usr.some
                  THEN [st.usr EXCEPT ![c.from][res_token_id] = out.usr]
                  ELSE st.usr,
          to_claim |-> ADD(st.to_claim, out.ret),
          err |-> "none"]

\* lines 19-50: the loop over reserve_token_ids; c holds the inputs that stay
\* the same (from, ts, positions, reserves).
RECURSIVE claim_loop(_, _, _)
claim_loop(ids, st, c) ==
    IF ids = <<>> \/ st.err # "none" THEN st
    ELSE IF ~reserve_list_get(Head(ids) \div 2).some THEN on_missing_reserve(st)
    ELSE IF SupplyScalar(Head(ids)).err # "none"
    THEN [st EXCEPT !.err = SupplyScalar(Head(ids)).err]
    ELSE claim_loop(Tail(ids),
                    claimed(st, c, Head(ids),
                            claim_emissions(
                                get_res_emis_data(st.res, Head(ids)),
                                get_user_emissions(st.usr, c.from, Head(ids)),
                                c.ts, token_supply(c.reserves, Head(ids)),
                                SupplyScalar(Head(ids)).val,
                                user_balance(c.positions, Head(ids)))),
                    c)

\* TokenClient::transfer_from(spender, from, to, amount) on the BLND token:
\* fails when `from` holds less than amount.
transfer_from(balance, amount) ==
    IF IsNeg(SUB(balance, amount))
    THEN [ok |-> FALSE, balance |-> balance]
    ELSE [ok |-> TRUE, balance |-> SUB(balance, amount)]

\* Variant of must_transfer: the transfer is made whatever the amount.
must_transfer_always(to_claim) == TRUE

\* line 52: if to_claim > 0
must_transfer(to_claim) == IsPos(to_claim)

\* The invocation panicked: the host discards what it wrote.
aborted(err, res, usr, blnd) ==
    [err |-> err, ret |-> I128(0), res |-> res, usr |-> usr, blnd |-> blnd,
     transfers |-> <<>>]

\* Variant of transferred: a transfer that fails is ignored.
transferred_unchecked(st, t, res, usr, blnd, to) ==
    [err |-> "none", ret |-> st.to_claim, res |-> st.res, usr |-> st.usr,
     blnd |-> t.balance,
     transfers |-> IF t.ok
                   THEN <<[from |-> "backstop", to |-> to, amount |-> st.to_claim]>>
                   ELSE <<>>]

\* lines 56-61: the transfer from the backstop to `to`; t is its outcome
transferred(st, t, res, usr, blnd, to) ==
    IF ~t.ok THEN aborted("BalanceError", res, usr, blnd)
    ELSE [err |-> "none", ret |-> st.to_claim, res |-> st.res, usr |-> st.usr,
          blnd |-> t.balance,
          transfers |-> <<[from |-> "backstop", to |-> to, amount |-> st.to_claim]>>]

\* lines 52-62: after the loop
settle(st, res, usr, blnd, to) ==
    IF st.err # "none" THEN aborted(st.err, res, usr, blnd)
    ELSE IF must_transfer(st.to_claim)
    THEN transferred(st, transfer_from(blnd, st.to_claim), res, usr, blnd, to)
    ELSE [err |-> "none", ret |-> st.to_claim, res |-> st.res, usr |-> st.usr,
          blnd |-> blnd, transfers |-> <<>>]

\* The whole function on the storage (res, usr) and the backstop's BLND
\* balance blnd: the value returned, the storage and the balance it leaves
\* and the transfers it made, or the panic that ended it (err).
execute_claim(res, usr, blnd, ts, from, ids, to, positions, reserves) ==
    settle(claim_loop(ids,
                      [res |-> res, usr |-> usr, to_claim |-> I128(0), err |-> "none"],
                      [from |-> from, ts |-> ts, positions |-> positions,
                       reserves |-> reserves]),
           res, usr, blnd, to)

\* The invocation of execute_claim, committed by the host.
InvokeClaim(out, from, to, ids, positions, reserves) ==
    /\ calls < MaxCalls
    /\ calls' = calls + 1
    /\ res_emis_data' = out.res
    /\ user_emissions' = out.usr
    /\ backstop_blnd' = out.blnd
    /\ last' = [op |-> "execute_claim", user |-> from, to |-> to, ids |-> ids,
                positions |-> positions, reserves |-> reserves, ts |-> timestamp,
                pre_res |-> None, pre_usr |-> None,
                pre_res_emis_data |-> res_emis_data,
                pre_user_emissions |-> user_emissions,
                pre_backstop_blnd |-> backstop_blnd,
                err |-> out.err, ret |-> out.ret, transfers |-> out.transfers]
    /\ UNCHANGED <<timestamp, pool_balance, balances, payouts, wide>>

ExecuteClaim ==
    \E from \in Users, to \in Recipients, ids \in Batches,
       positions \in PositionsSet, reserves \in ReservesSet :
        InvokeClaim(execute_claim(res_emis_data, user_emissions, backstop_blnd,
                                  timestamp, from, ids, to, positions, reserves),
                    from, to, ids, positions, reserves)

NextClaim == ExecuteClaim \/ UpdateEmissions \/ UpdateEmissionData \/ AdvanceLedger

\* Two invocations on the storage of Init: a claim after an update or after
\* another claim.
InitClaim ==
    /\ wide = FALSE
    /\ timestamp = 0
    /\ res_emis_data \in {f \in [ResTokenIds -> UNION {InitReserveData(id) : id \in ResTokenIds}] :
                             \A id \in ResTokenIds : f[id] \in InitReserveData(id)}
    /\ user_emissions = [u \in Users |-> [id \in ResTokenIds |-> None]]
    /\ last = NoCall
    /\ calls = MaxCalls - 2
    /\ backstop_blnd = BackstopFunds
    /\ pool_balance = NoPool
    /\ balances = NoBalances
    /\ payouts = NoPayouts

SpecClaim == InitClaim /\ [][NextClaim]_vars

(***************************************************************************)
(* The backstop's share / token conversions                                *)
(* (backstop/src/certora_specs/mocks/conversions.rs), on i64.  A pool's    *)
(* balance is its shares and the tokens that back them.                    *)
(***************************************************************************)
MaxAmount == 4

I64_MAX == Dec(<<922, 3372, 0368, 5477, 5807>>)

\* i64::MIN <= v <= i64::MAX (a TLC integer is below 2^31 and always fits)
FitsI64(v) ==
    IF wide
    THEN IF v.neg THEN MagCmp(v.mag, MagAdd(I64_MAX.mag, <<1>>, 0)) <= 0
         ELSE MagCmp(v.mag, I64_MAX.mag) <= 0
    ELSE TRUE

\* the floor narrowed to i64: None when it does not fit
narrowed(f) == IF f.ok /\ ~FitsI64(f.val) THEN [ok |-> FALSE, val |-> I128(0)] ELSE f

\* Variant of fixed_mul_floor_i64: rounds up.
fixed_mul_floor_i64_ceil(x, y, denominator) ==
    narrowed(fixed_mul_floor_ceil(x, y, denominator))

\* i64's x.fixed_mul_floor(y, denominator): Some(floor(x * y / denominator)),
\* or None when the denominator is zero or the result does not fit i64
fixed_mul_floor_i64(x, y, denominator) ==
    narrowed(div_floor(MUL(x, y), denominator))

\* Option::unwrap: the value, or a panic
unwrap(o) ==
    IF o.ok THEN [err |-> "none", ret |-> o.val]
    ELSE [err |-> "unwrap_none", ret |-> I128(0)]

\* Variant of certora_convert_to_tokens: the ratio is upside down.
certora_convert_to_tokens_inverted(pool_shares, pool_tokens, shares) ==
    IF pool_shares = I128(0) THEN [err |-> "none", ret |-> shares]
    ELSE unwrap(fixed_mul_floor_i64(shares, pool_shares, pool_tokens))

\* conversions.rs:4-13
certora_convert_to_tokens(pool_shares, pool_tokens, shares) ==
    IF pool_shares = I128(0) THEN [err |-> "none", ret |-> shares]
    ELSE unwrap(fixed_mul_floor_i64(shares, pool_tokens, pool_shares))

\* Variant of certora_convert_to_shares: the division rounds up.
certora_convert_to_shares_ceil(pool_shares, pool_tokens, tokens) ==
    IF pool_shares = I128(0) THEN [err |-> "none", ret |-> tokens]
    ELSE unwrap(fixed_mul_floor_i64_ceil(tokens, pool_shares, pool_tokens))

\* Variant of certora_convert_to_shares: no passthrough for an empty pool.
certora_convert_to_shares_no_passthrough(pool_shares, pool_tokens, tokens) ==
    unwrap(fixed_mul_floor_i64(tokens, pool_shares, pool_tokens))

\* Variant of certora_convert_to_shares: a pool without tokens converts to
\* nothing instead of dividing.
certora_convert_to_shares_guarded(pool_shares, pool_tokens, tokens) ==
    IF pool_shares = I128(0) THEN [err |-> "none", ret |-> tokens]
    ELSE IF pool_tokens = I128(0) THEN [err |-> "none", ret |-> I128(0)]
    ELSE unwrap(fixed_mul_floor_i64(tokens, pool_shares, pool_tokens))

\* conversions.rs:15-24
certora_convert_to_shares(pool_shares, pool_tokens, tokens) ==
    IF pool_shares = I128(0) THEN [err |-> "none", ret |-> tokens]
    ELSE unwrap(fixed_mul_floor_i64(tokens, pool_shares, pool_tokens))

\* The shares and tokens of a pool, and the amounts converted: every small
\* i64 around zero, and in the wide representation the ends of the range.
PoolAmounts ==
    IF wide THEN {I128(0), I128(3), I64_MAX}
    ELSE (0 - 1)..MaxAmount

Amounts ==
    IF wide THEN {I128(0), I128(7), SUB(I64_MAX, I128(1)), I64_MAX}
    ELSE (0 - 2)..(2 * MaxAmount)

\* A conversion is a pure function of the pool balance and the amount.
Convert(op, out, amount) ==
    /\ last' = [op |-> op, amount |-> amount, err |-> out.err, ret |-> out.ret]
    /\ UNCHANGED <<timestamp, res_emis_data, user_emissions, calls,
                   backstop_blnd, pool_balance, balances, payouts, wide>>

ConvertToTokens ==
    \E shares \in Amounts :
        Convert("convert_to_tokens",
                certora_convert_to_tokens(pool_balance.shares, pool_balance.tokens, shares),
                shares)

ConvertToShares ==
    \E tokens \in Amounts :
        Convert("convert_to_shares",
                certora_convert_to_shares(pool_balance.shares, pool_balance.tokens, tokens),
                tokens)

NextConv == ConvertToTokens \/ ConvertToShares

\* Any pool balance, in either representation; no emissions.
InitConv ==
    /\ wide \in BOOLEAN
    /\ timestamp = 0
    /\ res_emis_data = [id \in ResTokenIds |-> None]
    /\ user_emissions = [u \in Users |-> [id \in ResTokenIds |-> None]]
    /\ last = NoCall
    /\ calls = 0
    /\ backstop_blnd = I128(0)
    /\ pool_balance \in [shares : PoolAmounts, tokens : PoolAmounts]
    /\ balances = NoBalances
    /\ payouts = NoPayouts

SpecConv == InitConv /\ [][NextConv]_vars

(***************************************************************************)
(* The pool around one stream: the callers of update_emissions and         *)
(* claim_emissions keep the users' balances of a reserve token, hand in    *)
(* the supply (the sum of the balances) and the user's balance as they are *)
(* before the call, and change a balance only after the user has been      *)
(* reconciled in the same invocation.                                      *)
(***************************************************************************)
MaxHolding == 2

HeldToken == 2

Holdings == {I128(n) : n \in 0..MaxHolding}

RECURSIVE SumOver(_, _)
SumOver(f, S) ==
    IF S = {} THEN I128(0)
    ELSE LET u == CHOOSE x \in S : TRUE IN ADD(f[u], SumOver(f, S \ {u}))

\* the supply of the reserve token: what the users hold
total_supply == SumOver(balances, Users)

\* One invocation on the held token by `user`: the storage writes and the
\* balance change commit together, or the invocation panics and commits
\* nothing; a claim pays its return value to the user.
InvokeHolder(op, out, user, balance) ==
    /\ Invoke(op, out, HeldToken, user, total_supply, SupplyScalar(HeldToken).val,
              balances[user])
    /\ balances' = IF out.err = "none" THEN [balances EXCEPT ![user] = balance]
                   ELSE balances
    /\ payouts' = IF out.err = "none"
                  THEN [payouts EXCEPT ![user] = ADD(payouts[user], out.ret)]
                  ELSE payouts

\* update_emissions for the user, with no change of balance.
HolderUpdate ==
    \E user \in Users :
        InvokeHolder("update_emissions",
                     update_emissions(res_emis_data[HeldToken],
                                      user_emissions[user][HeldToken], timestamp,
                                      total_supply, SupplyScalar(HeldToken).val,
                                      balances[user]),
                     user, balances[user])

\* A supply or withdrawal: update_emissions for the user with the balance
\* and the supply as they were, then the balance changes.
HolderChange ==
    \E user \in Users : \E balance \in Holdings \ {balances[user]} :
        InvokeHolder("update_emissions",
                     update_emissions(res_emis_data[HeldToken],
                                      user_emissions[user][HeldToken], timestamp,
                                      total_supply, SupplyScalar(HeldToken).val,
                                      balances[user]),
                     user, balance)

\* claim_emissions for the user.
HolderClaim ==
    \E user \in Users :
        InvokeHolder("claim_emissions",
                     claim_emissions(res_emis_data[HeldToken],
                                     user_emissions[user][HeldToken], timestamp,
                                     total_supply, SupplyScalar(HeldToken).val,
                                     balances[user]),
                     user, balances[user])

\* update_emission_data on its own, with the supply as it is.
HolderAdvance ==
    /\ InvokeEmissionData(update_emission_data(res_emis_data[HeldToken], timestamp,
                                               total_supply,
                                               SupplyScalar(HeldToken).val),
                          HeldToken, total_supply, SupplyScalar(HeldToken).val)
    /\ UNCHANGED <<balances, payouts>>

NextHolders ==
    HolderUpdate \/ HolderChange \/ HolderClaim \/ HolderAdvance \/ AdvanceLedger

\* A stream configured at time 0 with index 0, at 1.5 or 2 tokens per
\* second, that expires inside or after the exploration; the users hold
\* what they held when it was configured and none has been reconciled.
HeldStreams ==
    {ReserveEmissionData(expiration, eps, I128(0), 0) :
        expiration \in {1, MaxTime + 3}, eps \in {15000000, 20000000}}

InitHolders ==
    /\ wide = FALSE
    /\ timestamp = 0
    /\ \E d \in HeldStreams :
           res_emis_data = [id \in ResTokenIds |-> IF id = HeldToken THEN Some(d) ELSE None]
    /\ user_emissions = [u \in Users |-> [id \in ResTokenIds |-> None]]
    /\ last = NoCall
    /\ calls = 0
    /\ backstop_blnd = BackstopFunds
    /\ pool_balance = NoPool
    /\ balances \in [Users -> Holdings]
    /\ payouts = NoPayouts

SpecHolders == InitHolders /\ [][NextHolders]_vars

(***************************************************************************)
(* A window over which no balance changes: the holders only update and     *)
(* claim, so the supply and every balance stay what they were at the       *)
(* start.                                                                  *)
(***************************************************************************)
NextWindow == HolderUpdate \/ HolderClaim \/ HolderAdvance \/ AdvanceLedger

SpecWindow == InitHolders /\ [][NextWindow]_vars

(***************************************************************************)
(* Properties.                                                             *)
(***************************************************************************)
\* The last step was an invocation on a reserve token that has emission data.
Called == last.op # "none" /\ last.pre_res.some

\* The record of the reserve token / the snapshot the last invocation was about.
LastStream == res_emis_data[last.res_token_id].val
LastSnapshot == user_emissions[last.user][last.res_token_id]

\* The last invocation returned, and none of the four conditions under which
\* update_emission_data returns the stored record held when it started.
Proceeds ==
    /\ Called
    /\ last.err = "none"
    /\ last.pre_res.val.last_time < last.pre_res.val.expiration
    /\ last.ts # last.pre_res.val.last_time
    /\ last.pre_res.val.eps # 0
    /\ last.supply # 0

Min(a, b) == IF a < b THEN a ELSE b

\* C1: across every step, the stored index of every reserve token that has
\* emission data is at least what it was before the step (ledger timestamps
\* only move forward), and the record is never removed.
IndexNeverDecreases ==
    [][\A id \in ResTokenIds :
          res_emis_data[id].some =>
              /\ res_emis_data'[id].some
              /\ res_emis_data'[id].val.index >= res_emis_data[id].val.index]_vars

\* Witness of C1: an invocation stored a strictly larger index.
IndexAdvanced ==
    /\ Called
    /\ last.wrote_res
    /\ LastStream.index > last.pre_res.val.index

\* C2: every stored user snapshot belongs to a reserve token with emission
\* data, and its index is at most the stored index of that reserve token.
SnapshotIndexAtMostStreamIndex ==
    \A u \in Users, id \in ResTokenIds :
        user_emissions[u][id].some =>
            /\ res_emis_data[id].some
            /\ user_emissions[u][id].val.index <= res_emis_data[id].val.index

\* Witness of C2: a snapshot taken earlier lags the index stored since.
SnapshotBehindStream ==
    \E u \in Users, id \in ResTokenIds :
        /\ user_emissions[u][id].some
        /\ res_emis_data[id].some
        /\ user_emissions[u][id].val.index < res_emis_data[id].val.index
        /\ res_emis_data[id].val.last_time > 0

\* C3: the accrued amount of every stored user snapshot is >= 0 (all
\* balances handed to update_emissions and claim_emissions are >= 0).
AccruedNonNegative ==
    \A u \in Users, id \in ResTokenIds :
        user_emissions[u][id].some => user_emissions[u][id].val.accrued >= 0

\* Witness of C3: update_emissions added a positive amount to a snapshot that
\* existed before.
AccruedGrew ==
    /\ Called
    /\ last.op = "update_emissions"
    /\ last.pre_usr.some
    /\ LastSnapshot.val.accrued > last.pre_usr.val.accrued

\* What was owed to the user before the last invocation: the stored snapshot,
\* or index 0 and nothing accrued when there was none.
PreSnapshot ==
    IF last.pre_usr.some THEN last.pre_usr.val ELSE UserEmissionData(0, 0)

\* C4: after a claim_emissions that reconciled the user and returned, the
\* stored accrued is 0, the snapshot index is the stored index of the reserve
\* token, and the amount returned is the accrued amount stored before plus
\* floor(balance * (index - snapshot index) / (supply_scalar * SCALAR_7)).
ClaimPaysAccruedAndResets ==
    (Called /\ last.op = "claim_emissions" /\ last.err = "none") =>
        /\ LastSnapshot.some
        /\ LastSnapshot.val.accrued = 0
        /\ LastSnapshot.val.index = LastStream.index
        /\ last.ret = PreSnapshot.accrued
                      + (last.balance * (LastStream.index - PreSnapshot.index))
                            \div (last.supply_scalar * SCALAR_7)

\* Witness of C4: a claim paid out an already accrued amount and a new one.
ClaimPaidOldAndNew ==
    /\ Called
    /\ last.op = "claim_emissions"
    /\ last.err = "none"
    /\ last.pre_usr.some
    /\ last.pre_usr.val.accrued > 0
    /\ last.ret > last.pre_usr.val.accrued

\* C5: an invocation at the timestamp of the last update, or on a reserve
\* token with eps = 0, or with a supply of 0, writes no emission data: the
\* stored record is what it was, and update_emission_data returned it.
NoOpLeavesRecord ==
    (/\ Called
     /\ \/ last.ts = last.pre_res.val.last_time
        \/ last.pre_res.val.eps = 0
        \/ last.supply = 0) =>
        /\ ~last.wrote_res
        /\ res_emis_data[last.res_token_id] = last.pre_res
        /\ last.res_ret = last.pre_res

\* Witness of C5: a call with supply 0 when time has passed, eps is not 0 and
\* the emission has not expired.
NoOpOnZeroSupply ==
    /\ Called
    /\ last.supply = 0
    /\ last.ts # last.pre_res.val.last_time
    /\ last.pre_res.val.eps # 0
    /\ last.pre_res.val.last_time < last.pre_res.val.expiration

\* C6: once last_time >= expiration, no step changes the record of that
\* reserve token again.
ExpiredStaysFrozen ==
    [][\A id \in ResTokenIds :
          (res_emis_data[id].some
           /\ res_emis_data[id].val.last_time >= res_emis_data[id].val.expiration) =>
              res_emis_data'[id] = res_emis_data[id]]_vars

\* Witness of C6: an invocation at a later timestamp and with a supply on a
\* reserve token whose emission had expired.
ExpiredCalledLater ==
    /\ Called
    /\ last.pre_res.val.last_time >= last.pre_res.val.expiration
    /\ last.pre_res.val.eps # 0
    /\ last.supply # 0
    /\ last.ts > last.pre_res.val.last_time

\* C7: when update_emission_data proceeds, the stored last_time is the
\* expiration if the ledger timestamp is past it and the ledger timestamp
\* otherwise; past the expiration the index grows by the emissions of
\* expiration - last_time seconds only.
LastTimeClamped ==
    Proceeds =>
        /\ LastStream.last_time =
               (IF last.ts > last.pre_res.val.expiration
                THEN last.pre_res.val.expiration ELSE last.ts)
        /\ last.ts > last.pre_res.val.expiration =>
               LastStream.index = last.pre_res.val.index
                   + ((last.pre_res.val.expiration - last.pre_res.val.last_time)
                      * last.pre_res.val.eps * last.supply_scalar) \div last.supply

\* Witness of C7: the update proceeded at a timestamp past the expiration.
ProceededPastExpiration ==
    /\ Proceeds
    /\ last.ts > last.pre_res.val.expiration
    /\ LastStream.last_time < last.ts

\* The emissions of the period of the last invocation, at the supply scalar.
PeriodEmissions ==
    (Min(last.ts, last.pre_res.val.expiration) - last.pre_res.val.last_time)
        * last.pre_res.val.eps * last.supply_scalar

\* C8: when update_emission_data proceeds, the index grows by the largest
\* integer whose product with the supply is at most the period's emissions
\* (the floor of the quotient), and the record returned is the one stored.
IndexGrowsByFloor ==
    Proceeds =>
        LET delta == LastStream.index - last.pre_res.val.index IN
        /\ delta * last.supply <= PeriodEmissions
        /\ PeriodEmissions < (delta + 1) * last.supply
        /\ last.wrote_res
        /\ last.res_ret = res_emis_data[last.res_token_id]

\* Witness of C8: the update proceeded and the quotient was not exact.
IndexRoundedDown ==
    /\ Proceeds
    /\ PeriodEmissions % last.supply # 0
    /\ LastStream.index > last.pre_res.val.index

\* The last invocation had the inputs of test_update_emissions and
\* test_claim_emissions: reserve token 2, supply 50_0000000, supply scalar
\* 1_0000000, balance 2_0000000, at timestamp 1501000000, on the tests' storage.
TestInputs ==
    /\ last.op # "none"
    /\ last.res_token_id = 2
    /\ last.user = "samwise"
    /\ last.pre_res = Some(TestReserveData)
    /\ last.pre_usr = Some(TestUserData)
    /\ last.supply = Dec(<<5, 0000, 0000>>)
    /\ last.supply_scalar = Dec(<<1000, 0000>>)
    /\ last.balance = Dec(<<2000, 0000>>)
    /\ last.ts = 1501000000

\* C9: on the inputs of the two unit tests, claim_emissions returns
\* 4003222222, stores last_time 1501000000 and leaves the user at the new
\* index of the reserve token with accrued 0; update_emissions stores
\* accrued 4003222222 instead (and returns nothing).
TestScenarioResult ==
    TestInputs =>
        /\ last.err = "none"
        /\ LastStream.last_time = 1501000000
        /\ LastStream.index # TestReserveData.index
        /\ last.op = "claim_emissions" =>
               /\ last.ret = Dec(<<40, 0322, 2222>>)
               /\ LastSnapshot = Some(UserEmissionData(LastStream.index, I128(0)))
        /\ last.op = "update_emissions" =>
               /\ last.ret = I128(0)
               /\ LastSnapshot =
                      Some(UserEmissionData(LastStream.index, Dec(<<40, 0322, 2222>>)))

\* Witness of C9: claim_emissions ran on the tests' inputs.
TestClaimRan == TestInputs /\ last.op = "claim_emissions" /\ last.err = "none"

\* C10: whenever the user has a snapshot, update_user_emissions goes past
\* its "nothing to do" test (the indexes differ or it is a claim) and the index
\* of the reserve token is below the snapshot's, the invocation fails with
\* NegativeAmountError and the snapshot stays as it was, whatever the balance.
NegativeIndexDeltaFails ==
    (/\ Called
     /\ last.pre_usr.some
     /\ last.res_ret.some
     /\ last.res_ret.val.index < last.pre_usr.val.index) =>
        /\ last.err = "NegativeAmountError"
        /\ ~last.wrote_usr
        /\ LastSnapshot = last.pre_usr

\* The last invocation found a record for which none of the four conditions
\* of update_emission_data's early return held, with the ledger timestamp,
\* capped at the expiration, before the stored last_time.
LastTimeAhead ==
    /\ Called
    /\ last.pre_res.val.last_time < last.pre_res.val.expiration
    /\ last.ts # last.pre_res.val.last_time
    /\ last.pre_res.val.eps # 0
    /\ last.supply # 0
    /\ Min(last.ts, last.pre_res.val.expiration) < last.pre_res.val.last_time

\* C11: a step that invokes update_emission_data (through update_emissions or
\* claim_emissions) on such a record ends in the panic of the unsigned
\* subtraction, and leaves every emission record and every user snapshot as
\* it was.
SubtractOverflowFails ==
    [][LastTimeAhead' =>
          /\ last'.err = "subtract_overflow"
          /\ res_emis_data' = res_emis_data
          /\ user_emissions' = user_emissions]_vars

\* Witness of C11: an invocation met a last_time ahead of the ledger, on a
\* reserve token with a user snapshot.
LastTimeAheadCalled == LastTimeAhead /\ last.pre_usr.some

\* The last invocation returned after reconciling a user who had no snapshot.
FirstReconcile ==
    /\ Called
    /\ last.op \in {"update_emissions", "claim_emissions"}
    /\ last.res_ret.some
    /\ ~last.pre_usr.some

\* C18: update_user_emissions for a user without a snapshot and with a
\* balance of 0 stores the snapshot {index of the reserve token, accrued 0}
\* and pays nothing, for update_emissions and for claim_emissions alike.
FirstReconcileNoBalance ==
    (FirstReconcile /\ last.balance = 0) =>
        /\ last.err = "none"
        /\ last.wrote_usr
        /\ LastSnapshot = Some(UserEmissionData(last.res_ret.val.index, 0))
        /\ last.ret = 0

\* Witness of C18: a claim for a user without snapshot and balance, on a
\* reserve token whose index is not 0.
FirstClaimNoBalance ==
    /\ FirstReconcile
    /\ last.balance = 0
    /\ last.op = "claim_emissions"
    /\ last.res_ret.val.index > 0

\* What a balance earns over the whole index of the reserve token.
OwedFromZero ==
    (last.balance * last.res_ret.val.index) \div (last.supply_scalar * SCALAR_7)

\* C19: update_user_emissions for a user without a snapshot and with a
\* balance other than 0 computes
\* floor(balance * index / (supply_scalar * SCALAR_7)); a claim returns it and
\* stores accrued 0, an update stores it as accrued and returns 0; either way
\* the snapshot index becomes the index of the reserve token.
FirstReconcileWithBalance ==
    (FirstReconcile /\ last.balance # 0) =>
        /\ last.err = "none"
        /\ last.wrote_usr
        /\ LastSnapshot.val.index = last.res_ret.val.index
        /\ last.op = "claim_emissions" =>
               last.ret = OwedFromZero /\ LastSnapshot.val.accrued = 0
        /\ last.op = "update_emissions" =>
               last.ret = 0 /\ LastSnapshot.val.accrued = OwedFromZero

\* Witness of C19: an update for a user without snapshot stored an amount
\* that was rounded down.
FirstUpdateRoundedDown ==
    /\ FirstReconcile
    /\ last.op = "update_emissions"
    /\ last.balance # 0
    /\ LastSnapshot.val.accrued > 0
    /\ (last.balance * last.res_ret.val.index) % (last.supply_scalar * SCALAR_7) # 0

\* The last invocation was an update_emissions with a balance, for a user
\* whose snapshot index differs from the index of the reserve token.
UpdateBehind ==
    /\ Called
    /\ last.op = "update_emissions"
    /\ last.res_ret.some
    /\ last.pre_usr.some
    /\ last.pre_usr.val.index # last.res_ret.val.index
    /\ last.balance # 0

\* C20: such an update stores accrued = the accrued stored before +
\* floor(balance * (index - snapshot index) / (supply_scalar * SCALAR_7)),
\* moves the snapshot index to the index of the reserve token and returns 0.
UpdateAddsToAccrued ==
    UpdateBehind =>
        /\ last.err = "none"
        /\ last.ret = 0
        /\ LastSnapshot =
               Some(UserEmissionData(
                   last.res_ret.val.index,
                   last.pre_usr.val.accrued
                     + (last.balance * (last.res_ret.val.index - last.pre_usr.val.index))
                           \div (last.supply_scalar * SCALAR_7)))

\* Witness of C20: the update added a positive amount to a positive one.
UpdateAddedToPositive ==
    /\ UpdateBehind
    /\ last.pre_usr.val.accrued > 0
    /\ LastSnapshot.val.accrued > last.pre_usr.val.accrued

(***************************************************************************)
(* Properties of execute_claim.                                            *)
(***************************************************************************)
\* The last step was an invocation of execute_claim.
Claimed == last.op = "execute_claim"

\* The reserve token ids of the last execute_claim.
ClaimedIds == {last.ids[i] : i \in 1..Len(last.ids)}

\* What execute_claim(ids) does on the storage and the balance that the last
\* execute_claim found, with the other inputs of that invocation.
ClaimOn(ids) ==
    execute_claim(last.pre_res_emis_data, last.pre_user_emissions,
                  last.pre_backstop_blnd, last.ts, last.user, ids, last.to,
                  last.positions, last.reserves)

\* The outcome of the last execute_claim is that of run.
SameOutcome(run) ==
    /\ last.err = run.err
    /\ last.ret = run.ret
    /\ last.transfers = run.transfers
    /\ res_emis_data = run.res
    /\ user_emissions = run.usr
    /\ backstop_blnd = run.blnd

\* The loop of the last execute_claim, run again on what it found.
LastLoop ==
    claim_loop(last.ids,
               [res |-> last.pre_res_emis_data, usr |-> last.pre_user_emissions,
                to_claim |-> 0, err |-> "none"],
               [from |-> last.user, ts |-> last.ts, positions |-> last.positions,
                reserves |-> last.reserves])

\* The snapshot the claimant had for a reserve token before the invocation.
PreSnapshotOf(id) ==
    IF last.pre_user_emissions[last.user][id].some
    THEN last.pre_user_emissions[last.user][id].val
    ELSE UserEmissionData(0, 0)

\* What a claim on a reserve token pays: the accrued amount stored before
\* plus what the balance earned up to the index stored now.
OwedOn(id) ==
    IF ~res_emis_data[id].some THEN 0
    ELSE PreSnapshotOf(id).accrued
         + (user_balance(last.positions, id)
              * (res_emis_data[id].val.index - PreSnapshotOf(id).index))
               \div (SupplyScalar(id).val * SCALAR_7)

RECURSIVE SumOwed(_)
SumOwed(S) ==
    IF S = {} THEN 0
    ELSE LET id == CHOOSE x \in S : TRUE IN OwedOn(id) + SumOwed(S \ {id})

\* C12: an execute_claim that returns gives back the sum, over the reserve
\* tokens of the batch, of what a claim on each pays; when the sum is
\* positive there is exactly one transfer, of the sum, from the backstop to
\* `to`; and the claimant's snapshot of every reserve token of the batch that
\* has emission data holds accrued 0 and the stored index of that token.
ClaimReturnsSum ==
    (Claimed /\ last.err = "none") =>
        /\ last.ret = SumOwed(ClaimedIds)
        /\ last.ret > 0 =>
               /\ last.transfers =
                      <<[from |-> "backstop", to |-> last.to, amount |-> last.ret]>>
               /\ backstop_blnd = last.pre_backstop_blnd - last.ret
        /\ \A id \in ClaimedIds :
               res_emis_data[id].some =>
                   user_emissions[last.user][id] =
                       Some(UserEmissionData(res_emis_data[id].val.index, 0))

\* Witness of C12: a batch of two reserve tokens that both paid.
ClaimedTwoStreams ==
    /\ Claimed
    /\ last.err = "none"
    /\ last.ids = <<1, 2>>
    /\ OwedOn(1) > 0
    /\ OwedOn(2) > 0

\* C13: when the claims of the batch add up to 0, and in particular when the
\* batch is empty, execute_claim returns 0 without failing and without a
\* transfer: the balance of the backstop is what it was.
ZeroClaimNoTransfer ==
    (/\ Claimed
     /\ \/ last.ids = <<>>
        \/ LastLoop.err = "none" /\ LastLoop.to_claim = 0) =>
        /\ last.err = "none"
        /\ last.ret = 0
        /\ last.transfers = <<>>
        /\ backstop_blnd = last.pre_backstop_blnd

\* Witness of C13: a batch on a reserve token with emission data, for a user
\* with a snapshot, that paid nothing.
ClaimedNothing ==
    /\ Claimed
    /\ last.ids # <<>>
    /\ LastLoop.err = "none"
    /\ LastLoop.to_claim = 0
    /\ \E id \in ClaimedIds : last.pre_user_emissions[last.user][id].some

\* The batch of the last execute_claim names a reserve that is not in the
\* reserve list.
InvalidIdInBatch ==
    /\ Claimed
    /\ \E id \in ClaimedIds : (id \div 2) \notin ReserveList

\* C14: a step that invokes execute_claim with such a batch ends in
\* BadRequest without a transfer, and leaves every emission record, every
\* user snapshot and the balance of the backstop as they were.
InvalidIdAborts ==
    [][InvalidIdInBatch' =>
          /\ last'.err = "BadRequest"
          /\ last'.transfers = <<>>
          /\ res_emis_data' = res_emis_data
          /\ user_emissions' = user_emissions
          /\ backstop_blnd' = backstop_blnd]_vars

\* Witness of C14: the invalid id came after a reserve token whose claim
\* alone advances the index and pays.
InvalidAfterPaying ==
    /\ InvalidIdInBatch
    /\ Len(last.ids) = 2
    /\ last.ids[1] \in ResTokenIds
    /\ ClaimOn(<<last.ids[1]>>).ret > 0
    /\ ClaimOn(<<last.ids[1]>>).res # last.pre_res_emis_data

\* The claims of the last execute_claim add up to more than the backstop
\* holds.
ClaimExceedsFunds ==
    /\ Claimed
    /\ LastLoop.err = "none"
    /\ LastLoop.to_claim > last.pre_backstop_blnd

\* C15: an execute_claim whose claims add up to more than the backstop holds
\* fails on the transfer, and every emission record, every user snapshot and
\* the balance of the backstop are what they were before the invocation.
FailedTransferAborts ==
    ClaimExceedsFunds =>
        /\ last.err = "BalanceError"
        /\ last.transfers = <<>>
        /\ res_emis_data = last.pre_res_emis_data
        /\ user_emissions = last.pre_user_emissions
        /\ backstop_blnd = last.pre_backstop_blnd

\* Witness of C15: the loop had advanced an index and reset an accrued
\* amount before the transfer failed.
FailedAfterReset ==
    /\ ClaimExceedsFunds
    /\ LastLoop.res # last.pre_res_emis_data
    /\ \E id \in ClaimedIds :
          /\ last.pre_user_emissions[last.user][id].some
          /\ last.pre_user_emissions[last.user][id].val.accrued > 0
          /\ LastLoop.usr[last.user][id].val.accrued = 0

\* A batch without its duplicates: the first occurrence of every id, in order.
RECURSIVE Dedup(_)
Dedup(ids) ==
    IF ids = <<>> THEN <<>>
    ELSE <<Head(ids)>> \o Dedup(SelectSeq(Tail(ids), LAMBDA x : x # Head(ids)))

\* C16: the outcome of execute_claim (error, value returned, transfers,
\* emission records, snapshots, balance of the backstop) is the outcome of
\* execute_claim on the batch without its duplicates, and also that of the
\* batch repeated twice.
DuplicatesAddNothing ==
    Claimed =>
        /\ SameOutcome(ClaimOn(Dedup(last.ids)))
        /\ SameOutcome(ClaimOn(last.ids \o last.ids))

\* Witness of C16: a batch naming the same reserve token twice that paid.
ClaimedTwice ==
    /\ Claimed
    /\ last.err = "none"
    /\ Len(last.ids) = 2
    /\ last.ids[1] = last.ids[2]
    /\ last.ret > 0
    /\ res_emis_data # last.pre_res_emis_data

\* The orders in which the batch of the last execute_claim can be given.
Permuted ==
    {[i \in 1..Len(last.ids) |-> last.ids[p[i]]] :
        p \in {q \in [1..Len(last.ids) -> 1..Len(last.ids)] :
                  \A i, j \in 1..Len(last.ids) : q[i] = q[j] => i = j}}

\* C17: when every id of the batch names a reserve of the reserve list, the
\* outcome of execute_claim is its outcome on every reordering of the batch.
OrderIrrelevant ==
    (Claimed /\ ~InvalidIdInBatch) =>
        \A ids \in Permuted : SameOutcome(ClaimOn(ids))

\* Witness of C17: a batch of two reserve tokens that paid different amounts.
ClaimedUnequal ==
    /\ Claimed
    /\ last.err = "none"
    /\ Len(last.ids) = 2
    /\ last.ids[1] # last.ids[2]
    /\ OwedOn(last.ids[1]) > 0
    /\ OwedOn(last.ids[2]) > OwedOn(last.ids[1])

\* The last invocation was an update_emissions for a user whose snapshot was
\* at the index of the reserve token.
UpdateAtIndex ==
    /\ Called
    /\ last.op = "update_emissions"
    /\ last.res_ret.some
    /\ last.pre_usr.some
    /\ last.pre_usr.val.index = last.res_ret.val.index

\* C21: such an update writes no snapshot: the stored snapshot is the one
\* stored before and 0 is returned, whatever the balance.
UpdateAtIndexWritesNothing ==
    UpdateAtIndex =>
        /\ last.err = "none"
        /\ ~last.wrote_usr
        /\ LastSnapshot = last.pre_usr
        /\ last.ret = 0

\* Witness of C21: the user had a balance and an accrued amount.
UpdateAtIndexWithBalance ==
    /\ UpdateAtIndex
    /\ last.balance # 0
    /\ last.pre_usr.val.accrued > 0

\* The last invocation reconciled, with a balance of 0, a user who had a
\* snapshot.
ReconcileNoBalance ==
    /\ Called
    /\ last.res_ret.some
    /\ last.pre_usr.some
    /\ last.balance = 0

\* C22: with a balance of 0 the total is the accrued amount stored before
\* (an update leaves it stored, a claim returns it and stores 0), and the
\* snapshot index is the index of the reserve token.
NoBalanceAddsNothing ==
    ReconcileNoBalance =>
        /\ last.err = "none"
        /\ LastSnapshot.val.index = last.res_ret.val.index
        /\ last.op = "update_emissions" =>
               /\ LastSnapshot.val.accrued = last.pre_usr.val.accrued
               /\ last.ret = 0
        /\ last.op = "claim_emissions" =>
               /\ LastSnapshot.val.accrued = 0
               /\ last.ret = last.pre_usr.val.accrued

\* Witness of C22: an update moved the index of a snapshot holding an
\* accrued amount.
NoBalanceIndexMoved ==
    /\ ReconcileNoBalance
    /\ last.op = "update_emissions"
    /\ last.pre_usr.val.accrued > 0
    /\ last.pre_usr.val.index < LastSnapshot.val.index

\* The last invocation was on a reserve token without emission data.
CalledWithoutData ==
    /\ last.op \in {"update_emissions", "claim_emissions"}
    /\ ~last.pre_res.some

\* C23: such an invocation returns 0 without failing and stores neither
\* emission data nor a snapshot.
NoDataCreatesNothing ==
    CalledWithoutData =>
        /\ last.err = "none"
        /\ last.ret = 0
        /\ ~last.res_ret.some
        /\ ~last.wrote_res
        /\ ~last.wrote_usr
        /\ ~res_emis_data[last.res_token_id].some
        /\ \A u \in Users : ~user_emissions[u][last.res_token_id].some

\* Witness of C23: a claim with a supply and a balance, after time has passed.
ClaimedWithoutData ==
    /\ CalledWithoutData
    /\ last.op = "claim_emissions"
    /\ last.supply # 0
    /\ last.balance # 0
    /\ last.ts > 0

(***************************************************************************)
(* Share / token conversions.                                              *)
(***************************************************************************)
\* a <= b
LE(a, b) == ~IsNeg(SUB(b, a))

Converted == last.op \in {"convert_to_tokens", "convert_to_shares"}

\* The last step converted a non-negative amount on a pool that has shares
\* and tokens.
ConvertedOnBackedPool(op) ==
    /\ last.op = op
    /\ ~IsNeg(last.amount)
    /\ IsPos(pool_balance.shares)
    /\ IsPos(pool_balance.tokens)

\* The conversion of the last step's result back to tokens.
BackToTokens ==
    certora_convert_to_tokens(pool_balance.shares, pool_balance.tokens, last.ret)

\* The conversion of the last step's result back to shares.
BackToShares ==
    certora_convert_to_shares(pool_balance.shares, pool_balance.tokens, last.ret)

\* C24: on a pool with shares > 0 and tokens > 0, the shares that
\* convert_to_shares returns for x >= 0 tokens convert back to at most x
\* tokens, and the conversion back never fails.
TokenRoundtripCorrect ==
    (ConvertedOnBackedPool("convert_to_shares") /\ last.err = "none")
        => /\ BackToTokens.err = "none"
           /\ LE(BackToTokens.ret, last.amount)

\* A round trip of tokens that loses to rounding.
TokenRoundtripLossy ==
    /\ ConvertedOnBackedPool("convert_to_shares")
    /\ last.err = "none"
    /\ IsPos(last.ret)
    /\ BackToTokens.err = "none"
    /\ BackToTokens.ret # last.amount

\* C25: on a pool with shares > 0 and tokens > 0, the tokens that
\* convert_to_tokens returns for y >= 0 shares convert back to at most y
\* shares, and the conversion back never fails.
ShareRoundtripCorrect ==
    (ConvertedOnBackedPool("convert_to_tokens") /\ last.err = "none")
        => /\ BackToShares.err = "none"
           /\ LE(BackToShares.ret, last.amount)

\* A round trip of shares that loses to rounding.
ShareRoundtripLossy ==
    /\ ConvertedOnBackedPool("convert_to_tokens")
    /\ last.err = "none"
    /\ IsPos(last.ret)
    /\ BackToShares.err = "none"
    /\ BackToShares.ret # last.amount

ConvertedZero == Converted /\ last.amount = I128(0)

\* C26 as stated: on every pool balance both conversions of 0 return 0.
ZeroConvertsToZero ==
    ConvertedZero => (last.err = "none" /\ last.ret = I128(0))

\* The pool balances on which convert_to_shares has nothing to divide by.
SharesWithoutTokens ==
    pool_balance.shares # I128(0) /\ pool_balance.tokens = I128(0)

\* C26: both conversions of 0 return 0 on every pool balance, whatever the
\* signs of its shares and tokens, except convert_to_shares on a pool that
\* has shares and no tokens.
ZeroConvertsToZeroIfDivisible ==
    (ConvertedZero /\ ~(last.op = "convert_to_shares" /\ SharesWithoutTokens))
        => (last.err = "none" /\ last.ret = I128(0))

\* Zero converted to shares through the division, on a pool that has both.
ConvertedZeroByDivision ==
    /\ ConvertedOnBackedPool("convert_to_shares")
    /\ last.amount = I128(0)
    /\ last.ret = I128(0)

\* C27: on a pool with shares = 0, convert_to_shares(x) and
\* convert_to_tokens(x) return x for every x, whatever the pool's tokens,
\* and the pool balance is what it was.
ZeroSharesPassthrough ==
    [][(Converted' /\ pool_balance.shares = I128(0))
          => /\ last'.err = "none"
             /\ last'.ret = last'.amount
             /\ pool_balance' = pool_balance]_vars

\* Tokens converted on a pool that has tokens and no shares.
ConvertedOnEmptyPool ==
    /\ last.op = "convert_to_shares"
    /\ pool_balance.shares = I128(0)
    /\ IsPos(pool_balance.tokens)
    /\ IsPos(last.amount)
    /\ last.ret = last.amount

\* C28: convert_to_shares fails on the zero divisor for every input when the
\* pool has shares > 0 and tokens = 0; convert_to_tokens never divides by
\* zero: when it fails, the floor exists and does not fit i64.
DivisionByZeroOnlyToShares ==
    /\ (last.op = "convert_to_shares" /\ IsPos(pool_balance.shares)
            /\ pool_balance.tokens = I128(0))
         => last.err = "unwrap_none"
    /\ (last.op = "convert_to_tokens" /\ last.err # "none")
         => /\ pool_balance.shares # I128(0)
            /\ ~FitsI64(div_floor(MUL(last.amount, pool_balance.tokens),
                                  pool_balance.shares).val)

\* Zero tokens converted on a pool that has shares and no tokens.
ConvertedWithoutTokens ==
    /\ last.op = "convert_to_shares"
    /\ IsPos(pool_balance.shares)
    /\ pool_balance.tokens = I128(0)
    /\ last.amount = I128(0)
    /\ last.err = "unwrap_none"

(***************************************************************************)
(* The width of the index arithmetic.                                      *)
(***************************************************************************)
\* The last invocation reached the fixed-point division of
\* update_emission_data (distributor.rs:174-176).
ReachedIncrement ==
    /\ Called
    /\ last.op \in {"update_emissions", "claim_emissions"}
    /\ ~no_update_required(last.pre_res.val, last.ts, last.supply)

\* elapsed * eps * supply_scalar of the last invocation, at any width
IncrementProduct ==
    MUL(MUL(I128(ledger_timestamp(last.pre_res.val, last.ts)
                     - last.pre_res.val.last_time),
            last.pre_res.val.eps),
        last.supply_scalar)

\* floor(elapsed * eps * supply_scalar / supply) of the last invocation
ExactIncrement == div_floor(IncrementProduct, last.supply).val

\* C29: the fixed-point division of the index increment fails exactly when
\* floor(elapsed * eps * supply_scalar / supply) does not fit i128, however
\* wide the product elapsed * eps * supply_scalar is; when the floor fits,
\* the index returned and stored is the old index plus exactly that floor
\* (the addition itself is a checked i128 addition: it fails when the sum
\* does not fit, and only then).
IncrementExactWheneverItFits ==
    ReachedIncrement =>
        /\ (last.err = "fixed_point") = ~FitsI128(ExactIncrement)
        /\ (last.err = "add_overflow")
               = (/\ FitsI128(ExactIncrement)
                  /\ ~FitsI128(ADD(last.pre_res.val.index, ExactIncrement)))
        /\ last.err = "none" =>
               /\ last.res_ret.val.index = ADD(last.pre_res.val.index, ExactIncrement)
               /\ LastStream.index = ADD(last.pre_res.val.index, ExactIncrement)

\* test_update_emission_no_overflow: 10^7 s at eps 10^16 on a supply of
\* 10^30 at 18 decimals; the product 10^41 does not fit i128, the user is
\* left with accrued 2121111.
IncrementProductBeyondI128 ==
    /\ ReachedIncrement
    /\ last.op = "update_emissions"
    /\ last.ts = 1500000000
    /\ last.pre_res.val.index = Dec(<<23, 4567, 8000, 0000>>)
    /\ last.pre_usr = Some(OverflowUserData)
    /\ last.supply = TenTo(30)
    /\ last.balance = TenTo(18)
    /\ ~FitsI128(IncrementProduct)
    /\ last.err = "none"
    /\ LastStream.index = Dec(<<23, 5567, 8000, 0000>>)
    /\ LastStream.last_time = 1500000000
    /\ LastSnapshot = Some(UserEmissionData(LastStream.index, Dec(<<212, 1111>>)))

(***************************************************************************)
(* Properties of the stream with its holders (SpecHolders).                *)
(***************************************************************************)
HeldStream == res_emis_data[HeldToken].val

\* what is stored as accrued for a user on the held token (0 without a snapshot)
StoredAccrued ==
    [u \in Users |-> IF user_emissions[u][HeldToken].some
                     THEN user_emissions[u][HeldToken].val.accrued ELSE I128(0)]

Credited == ADD(SumOver(payouts, Users), SumOver(StoredAccrued, Users))

\* floor(eps * (min(now, expiration) - start_time) / SCALAR_7), start_time = 0
Emitted == (HeldStream.eps * Min(timestamp, HeldStream.expiration)) \div SCALAR_7

\* C30: on a stream whose index started at 0, with every change of a balance
\* preceded by update_emissions for that user in the same invocation and the
\* supply equal to the sum of the balances, the payouts made so far plus the
\* accrued amounts stored, over all users, never exceed what the stream has
\* emitted: floor(eps * (min(now, expiration) - start_time) / SCALAR_7).
CreditedAtMostEmitted == LE(Credited, I128(Emitted))

\* A user has been paid, another has just changed their balance after being
\* reconciled and has an amount stored as accrued; rounding has kept the
\* total credited below what was emitted.
CreditedBelowEmitted ==
    /\ last.op = "update_emissions" /\ last.err = "none"
    /\ last.balance # balances[last.user]
    /\ IsPos(StoredAccrued[last.user])
    /\ \E u \in Users \ {last.user} : IsPos(payouts[u])
    /\ Credited # I128(Emitted)

(***************************************************************************)
(* Properties of a window without balance changes (SpecWindow).            *)
(***************************************************************************)
\* The held stream as it was at the start of the window.
WindowStart ==
    Some(ReserveEmissionData(HeldStream.expiration, HeldStream.eps, I128(0), 0))

\* One claim_emissions by `user` now, on the storage of the start of the
\* window: the single claim at the end of the window, and in its res_ret the
\* single advance of the stream.
SingleClaim(user) ==
    claim_emissions(WindowStart, None, timestamp, total_supply,
                    SupplyScalar(HeldToken).val, balances[user])

\* What `user` has been credited, and the index stored, against the outcome
\* `single` of the single claim.
WithinSingle(user, single) ==
    /\ single.err = "none"
    /\ LE(ADD(payouts[user], StoredAccrued[user]), single.ret)
    /\ LE(HeldStream.index, single.res_ret.val.index)

\* C31: with the supply and the balances fixed over a window, whatever
\* update_emissions and claim_emissions calls the users have made inside it,
\* what a user has been paid plus what is stored as accrued for them is at
\* most what one claim at the end of the window pays, and the index of the
\* stream is at most the index after one advance over the window.
SplittingNeverPaysMore == \A u \in Users : WithinSingle(u, SingleClaim(u))

\* A user claims at the end of a window in which the stream was advanced in
\* between: the claimed total and the index are both below those of a single
\* claim.
BelowSingle(user, single) ==
    /\ payouts[user] # single.ret
    /\ HeldStream.index # single.res_ret.val.index

SplitClaimPaidLess ==
    /\ last.op = "claim_emissions" /\ last.err = "none"
    /\ last.pre_res.val.last_time > 0
    /\ last.pre_res.val.last_time < last.ts
    /\ IsPos(balances[last.user])
    /\ StoredAccrued[last.user] = I128(0)
    /\ BelowSingle(last.user, SingleClaim(last.user))

(***************************************************************************)
(* update_emissions followed by claim_emissions, against claim_emissions   *)
(* alone.                                                                  *)
(***************************************************************************)
\* What storage holds at a key after an invocation that found `old` there.
StoredAfter(old, out, write) == IF out.err = "none" /\ write.some THEN write ELSE old

\* update_emissions with the arguments of the last invocation, on the storage
\* that invocation found.
UpdateFirst ==
    update_emissions(last.pre_res, last.pre_usr, last.ts, last.supply,
                     last.supply_scalar, last.balance)

\* claim_emissions with the same arguments at the same timestamp, on the
\* storage that the invocation `u` left.
ClaimSecond(u) ==
    claim_emissions(StoredAfter(last.pre_res, u, u.res), StoredAfter(last.pre_usr, u, u.usr),
                    last.ts, last.supply, last.supply_scalar, last.balance)

\* The outcome of `u` then `c` is the outcome of the last invocation: both
\* fail, or both return the same and leave the same record and snapshot.
SameAsLast(u, c) ==
    IF last.err # "none" THEN u.err # "none"
    ELSE /\ u.err = "none" /\ c.err = "none"
         /\ c.ret = last.ret
         /\ StoredAfter(StoredAfter(last.pre_res, u, u.res), c, c.res)
                = res_emis_data[last.res_token_id]
         /\ StoredAfter(StoredAfter(last.pre_usr, u, u.usr), c, c.usr)
                = user_emissions[last.user][last.res_token_id]

UpdateThenClaimSameAsLast(u) == SameAsLast(u, ClaimSecond(u))

\* C32: at one timestamp and with the same supply and balance,
\* update_emissions followed by claim_emissions for the same user and reserve
\* token returns what claim_emissions alone returns and leaves the same
\* emission data and the same snapshot (and the update fails exactly when the
\* claim alone fails).
UpdateThenClaimIsClaim ==
    last.op = "claim_emissions" => UpdateThenClaimSameAsLast(UpdateFirst)

\* A claim that advanced the index and paid an amount stored before plus a
\* new one, and wrote both records.
ClaimAdvancedAndPaid ==
    /\ last.op = "claim_emissions" /\ Proceeds
    /\ last.pre_usr.some
    /\ IsPos(last.pre_usr.val.accrued)
    /\ IsPos(SUB(last.ret, last.pre_usr.val.accrued))
    /\ last.wrote_res /\ last.wrote_usr

(***************************************************************************)
(* Reconciliation when update_emission_data has nothing to update.         *)
(***************************************************************************)
\* The last invocation returned, and update_emission_data returned the stored
\* record: expired, no time elapsed, eps = 0 or supply = 0 (lines 160-166).
NoUpdateRequired ==
    /\ Called
    /\ last.err = "none"
    /\ \/ last.pre_res.val.last_time >= last.pre_res.val.expiration
       \/ last.ts = last.pre_res.val.last_time
       \/ last.pre_res.val.eps = 0
       \/ last.supply = 0

\* What the user is owed against the stored record: the accrued amount stored
\* before plus floor(balance * (index - snapshot index) / (scalar * SCALAR_7)).
OwedAgainstStored ==
    PreSnapshot.accrued
      + (last.balance * (last.pre_res.val.index - PreSnapshot.index))
            \div (last.supply_scalar * SCALAR_7)

\* C33: when update_emission_data has nothing to update, the record stays as
\* stored and the user is reconciled against it: a claim pays what the user
\* is owed up to the stored index and leaves the snapshot at that index with
\* accrued 0, so that a claim that finds the snapshot there pays 0; an update
\* stores what is owed as accrued.
ReconciledWithoutUpdate ==
    NoUpdateRequired =>
        /\ ~last.wrote_res
        /\ res_emis_data[last.res_token_id] = last.pre_res
        /\ last.op = "claim_emissions" =>
              /\ last.ret = OwedAgainstStored
              /\ LastSnapshot = Some(UserEmissionData(last.pre_res.val.index, 0))
              /\ last.pre_usr = Some(UserEmissionData(last.pre_res.val.index, 0))
                    => last.ret = 0
        /\ last.op = "update_emissions" =>
              /\ last.ret = 0
              /\ LastSnapshot = Some(UserEmissionData(last.pre_res.val.index,
                                                      OwedAgainstStored))

\* A user whose snapshot is behind the index of an expired stream claims
\* after the expiration and is paid.
ClaimedFromFrozenStream ==
    /\ last.op = "claim_emissions" /\ NoUpdateRequired
    /\ last.pre_res.val.last_time >= last.pre_res.val.expiration
    /\ last.ts > last.pre_res.val.expiration
    /\ last.pre_usr.some
    /\ last.pre_usr.val.index < last.pre_res.val.index
    /\ last.ret > 0
    /\ LastSnapshot.val.accrued = 0

(***************************************************************************)
(* Time that passes while the supply is 0.                                 *)
(***************************************************************************)
\* The last invocation found a live stream (not expired, eps # 0) on which
\* time had passed since last_time, and a supply of 0.
CalledWithoutSupply ==
    /\ Called
    /\ last.err = "none"
    /\ last.supply = 0
    /\ last.pre_res.val.eps # 0
    /\ last.pre_res.val.last_time < last.pre_res.val.expiration
    /\ last.ts > last.pre_res.val.last_time

\* The next invocation is on the same reserve token and advances its index.
AdvancesNext ==
    /\ last'.op \in {"update_emissions", "claim_emissions"}
    /\ last'.res_token_id = last.res_token_id
    /\ Proceeds'

\* C34: an invocation with supply 0 or eps 0 leaves the record, and so
\* last_time, as stored; the next invocation that advances the index after
\* one with supply 0 finds that record and adds
\* floor((min(now, expiration) - last_time) * eps * scalar / supply) for the
\* whole time since the stored last_time, the time with supply 0 included.
IdleTimeIsEmittedLater ==
    [][ /\ ( /\ last'.op \in {"update_emissions", "claim_emissions"}
             /\ last'.pre_res.some
             /\ last'.err = "none"
             /\ (last'.supply = 0 \/ last'.pre_res.val.eps = 0) )
           => res_emis_data'[last'.res_token_id] = res_emis_data[last'.res_token_id]
        /\ (CalledWithoutSupply /\ AdvancesNext)
           => /\ last'.pre_res = last.pre_res
              /\ res_emis_data'[last.res_token_id].val.last_time
                   = Min(last'.ts, last.pre_res.val.expiration)
              /\ res_emis_data'[last.res_token_id].val.index - last.pre_res.val.index
                   = ((Min(last'.ts, last.pre_res.val.expiration)
                          - last.pre_res.val.last_time)
                        * last.pre_res.val.eps * last'.supply_scalar) \div last'.supply
      ]_vars

\* An invocation with supply 0 on a live stream, after time has passed: the
\* record still has the last_time stored before.
IdleCallKeptLastTime ==
    /\ CalledWithoutSupply
    /\ LastStream = last.pre_res.val
    /\ LastStream.last_time < timestamp

(***************************************************************************)
(* last_time of a stream over its life.                                    *)
(***************************************************************************)
\* C35: a stream that starts with last_time <= expiration and is advanced at
\* the ledger's non-decreasing timestamps has last_time <= expiration in
\* every reachable state; no step lowers its last_time; and right after an
\* invocation that wrote its record, last_time = min(now, expiration).
LastTimeBoundedAndMonotone ==
    /\ [](\A id \in ResTokenIds :
            res_emis_data[id].some
                => res_emis_data[id].val.last_time <= res_emis_data[id].val.expiration)
    /\ [][\A id \in ResTokenIds :
            (res_emis_data[id].some /\ res_emis_data'[id].some)
                => /\ res_emis_data'[id].val.last_time >= res_emis_data[id].val.last_time
                   /\ (last'.op \in {"update_emissions", "claim_emissions"}
                          /\ last'.res_token_id = id /\ last'.wrote_res)
                        => res_emis_data'[id].val.last_time
                             = Min(timestamp', res_emis_data[id].val.expiration)
       ]_vars

\* A stream advanced for the second time, before it expires: last_time has
\* moved from one ledger timestamp to a later one.
AdvancedAgain ==
    /\ Called /\ last.wrote_res
    /\ last.pre_res.val.last_time > 0
    /\ LastStream.last_time > last.pre_res.val.last_time
    /\ LastStream.last_time = timestamp
    /\ timestamp < LastStream.expiration

(***************************************************************************)
(* What an invocation may write.                                           *)
(***************************************************************************)
\* The reserve tokens the last invocation was about: the one of an
\* update_emissions, claim_emissions or update_emission_data, the batch of an
\* execute_claim.
TouchedIds ==
    IF last.op = "execute_claim" THEN ClaimedIds
    ELSE IF last.op \in {"update_emissions", "claim_emissions", "update_emission_data"}
    THEN {last.res_token_id}
    ELSE {}

\* C36: an invocation for user u on reserve token s (update_emissions, or the
\* claim_emissions of every id of an execute_claim batch) changes at most the
\* emission data of s and the snapshot of (u, s); the emission data of every
\* other reserve token and the snapshot of every other (user, reserve token)
\* stay as they were, and no step changes the expiration or the eps of a
\* reserve token or removes its emission data.
WritesOnlyOwnRecords ==
    [][ /\ \A id \in ResTokenIds \ TouchedIds' :
              res_emis_data'[id] = res_emis_data[id]
        /\ \A u \in Users, id \in ResTokenIds :
              (u # last'.user \/ id \notin TouchedIds')
                  => user_emissions'[u][id] = user_emissions[u][id]
        /\ \A id \in ResTokenIds :
              /\ res_emis_data'[id].some = res_emis_data[id].some
              /\ res_emis_data[id].some
                    => /\ res_emis_data'[id].val.expiration = res_emis_data[id].val.expiration
                       /\ res_emis_data'[id].val.eps = res_emis_data[id].val.eps
      ]_vars

\* An execute_claim on one reserve token that advanced its index and wrote
\* the claimant's snapshot, while the other reserve token has emission data
\* and the other user a snapshot on it.
ClaimWroteBesideOthers ==
    /\ last.op = "execute_claim" /\ last.err = "none"
    /\ Cardinality(ClaimedIds) = 1
    /\ \A id \in ClaimedIds :
          /\ id \in ResTokenIds
          /\ res_emis_data[id] # last.pre_res_emis_data[id]
          /\ user_emissions[last.user][id] # last.pre_user_emissions[last.user][id]
    /\ \E id \in ResTokenIds \ ClaimedIds, u \in Users \ {last.user} :
          /\ res_emis_data[id].some
          /\ user_emissions[u][id].some

(***************************************************************************)
(* The accrued amount of a user over the steps.                            *)
(***************************************************************************)
\* accrued of a snapshot, 0 when there is none
AccruedOf(snapshot) == IF snapshot.some THEN snapshot.val.accrued ELSE I128(0)

\* C37: an update_emissions (balances are never negative) lowers no stored
\* accrued amount, returns no payout and moves no BLND; a stored accrued
\* amount goes down only in a claim by that user on that reserve token,
\* which leaves it at 0.
AccruedFallsOnlyByClaim ==
    [][ /\ last'.op = "update_emissions"
           => /\ last'.ret = I128(0)
              /\ backstop_blnd' = backstop_blnd
              /\ \A u \in Users, id \in ResTokenIds :
                    LE(AccruedOf(user_emissions[u][id]), AccruedOf(user_emissions'[u][id]))
        /\ \A u \in Users, id \in ResTokenIds :
              ~LE(AccruedOf(user_emissions[u][id]), AccruedOf(user_emissions'[u][id]))
                 => /\ last'.op \in {"claim_emissions", "execute_claim"}
                    /\ u = last'.user
                    /\ id \in TouchedIds'
                    /\ AccruedOf(user_emissions'[u][id]) = I128(0)
      ]_vars

\* An update_emissions that found an accrued amount stored and added to it.
UpdateRaisedAccrued ==
    /\ last.op = "update_emissions" /\ last.err = "none"
    /\ IsPos(last.balance)
    /\ IsPos(AccruedOf(last.pre_usr))
    /\ IsPos(SUB(AccruedOf(LastSnapshot), AccruedOf(last.pre_usr)))
    /\ last.ret = I128(0)

(***************************************************************************)
(* C38: how execute_claim decodes a reserve token id.                      *)
(***************************************************************************)
\* The decoding written out: reserve index id / 2, side id mod 2.
DecodedIndex(id) == id \div 2

DecodedBalance(positions, id) ==
    IF id % 2 = 0
    THEN positions.liabilities[DecodedIndex(id)]
    ELSE ADD(positions.collateral[DecodedIndex(id)], positions.supply[DecodedIndex(id)])

DecodedSupply(reserves, id) ==
    IF id % 2 = 0
    THEN reserves[DecodedIndex(id)].d_supply
    ELSE reserves[DecodedIndex(id)].b_supply

DecodedScalar(id) == Pow10(IF DecodedIndex(id) = 0 THEN Decimals(0) ELSE Decimals(2)).val

\* claim_emissions on what the last execute_claim found stored for id, with
\* the balance, the supply and the scalar decoded as above.
ClaimDecoded(id) ==
    claim_emissions(get_res_emis_data(last.pre_res_emis_data, id),
                    get_user_emissions(last.pre_user_emissions, last.user, id),
                    last.ts, DecodedSupply(last.reserves, id), DecodedScalar(id),
                    DecodedBalance(last.positions, id))

\* The storage holds for id what the claim `out` wrote, or what was there.
StoredAsClaimed(id, out) ==
    /\ out.err = "none"
    /\ res_emis_data[id] = IF out.res.some THEN out.res ELSE last.pre_res_emis_data[id]
    /\ user_emissions[last.user][id]
          = IF out.usr.some THEN out.usr ELSE last.pre_user_emissions[last.user][id]
    /\ Len(last.ids) = 1 => last.ret = out.ret

\* The ids of the last execute_claim are all different.
DistinctIds == Cardinality(ClaimedIds) = Len(last.ids)

\* C38: after an execute_claim that returned, each id of the batch (ids all
\* different) is settled as claim_emissions with the user's liabilities of
\* reserve id / 2 and that reserve's d_supply when id is even, with the
\* user's collateral plus supply of reserve id / 2 and that reserve's
\* b_supply when id is odd, and with 10^decimals of that reserve as scalar;
\* a batch of one id returns what that claim returns.
ClaimDecodesTokenId ==
    (last.op = "execute_claim" /\ last.err = "none" /\ DistinctIds)
        => \A id \in ClaimedIds : StoredAsClaimed(id, ClaimDecoded(id))

\* An execute_claim on both sides that paid for each: the odd id 1 (supply
\* side of reserve 0) and the even id 2 (liability side of reserve 1), with
\* positions and supplies that differ between the sides.
ClaimedBothSides ==
    /\ last.op = "execute_claim" /\ last.err = "none"
    /\ ClaimedIds = {1, 2}
    /\ IsPos(last.ret)
    /\ DecodedBalance(last.positions, 1) # last.positions.liabilities[0]
    /\ DecodedBalance(last.positions, 2) # ADD(last.positions.collateral[1], last.positions.supply[1])
    /\ DecodedSupply(last.reserves, 1) # last.reserves[0].d_supply
    /\ DecodedSupply(last.reserves, 2) # last.reserves[1].b_supply
    /\ DecodedScalar(1) # DecodedScalar(2)
    /\ \A id \in ClaimedIds :
          /\ res_emis_data[id].some /\ last.pre_res_emis_data[id].some
          /\ IsPos(SUB(res_emis_data[id].val.index, last.pre_res_emis_data[id].val.index))

(***************************************************************************)
(* C39: the conversions are monotone and round in the pool's favour.       *)
(***************************************************************************)
\* The conversion of the last step applied to another amount.
ConvertAgain(amount) ==
    IF last.op = "convert_to_shares"
    THEN certora_convert_to_shares(pool_balance.shares, pool_balance.tokens, amount)
    ELSE certora_convert_to_tokens(pool_balance.shares, pool_balance.tokens, amount)

\* The non-negative amounts up to the one the last step converted.
AmountsUpToLast == {a \in Amounts : ~IsNeg(a) /\ LE(a, last.amount)}

\* What the pool holds of the unit converted from, and of the unit converted
\* to, in the last step.
PoolOfInput ==
    IF last.op = "convert_to_shares" THEN pool_balance.tokens ELSE pool_balance.shares

PoolOfOutput ==
    IF last.op = "convert_to_shares" THEN pool_balance.shares ELSE pool_balance.tokens

\* C39: on a pool with shares > 0 and tokens > 0, a conversion of x >= 0
\* that returns is not below the conversion of any amount in 0..x, which
\* returns as well, and does not over-credit:
\* convert_to_shares(x) * tokens <= x * shares and
\* convert_to_tokens(y) * shares <= y * tokens.
ConversionsMonotoneAndFloored ==
    ((ConvertedOnBackedPool("convert_to_shares") \/ ConvertedOnBackedPool("convert_to_tokens"))
        /\ last.err = "none")
        => /\ \A a \in AmountsUpToLast :
                 /\ ConvertAgain(a).err = "none"
                 /\ LE(ConvertAgain(a).ret, last.ret)
           /\ ~IsNeg(last.ret)
           /\ LE(MUL(last.ret, PoolOfInput), MUL(last.amount, PoolOfOutput))

\* Shares converted to tokens with a loss to rounding, above a smaller
\* amount that converts to less and another that converts to the same.
ConvertedAboveSmaller ==
    /\ ConvertedOnBackedPool("convert_to_tokens")
    /\ last.err = "none"
    /\ IsPos(last.ret)
    /\ MUL(last.ret, PoolOfInput) # MUL(last.amount, PoolOfOutput)
    /\ \E a \in AmountsUpToLast : ConvertAgain(a).ret # last.ret
    /\ \E a \in AmountsUpToLast : a # last.amount /\ ConvertAgain(a).ret = last.ret

====
